---- MODULE Spec2Model ----
(***************************************************************************)
(* Session scheduling, command distribution and policy composition of the  *)
(* classroom control plane (src/app.py).  The persisted document           *)
(* (data.json) is the state; every HTTP handler is one atomic action that  *)
(* loads the document, changes it in memory and saves it.                  *)
(***************************************************************************)
EXTENDS Integers, Sequences, FiniteSets, TLC

VARIABLES
    sessions,            \* data["sessions"]: list of session objects
    active_sessions,     \* data["active_sessions"]: persisted active ids
    pending_by_session,  \* data["pending_by_session"]: sid -> list of commands
    pending_per_student, \* data["pending_per_student"]: student -> list of commands
    polls,               \* data["polls"]: ids of the polls created
    exam_state,          \* data["exam_state"]
    attention_check,     \* data["attention_check"]
    audit,               \* len(data["audit"])
    now,                 \* the wall clock, seconds since the epoch
    response,            \* the reply of the last request handled
    nextUid,             \* history: number of the next send operation
    sentTo,              \* history: sentTo[u] = session the u-th send was queued for
    received,            \* history: <<student, u>> once a poll returned send u to student
    enqLog,              \* history: per session, the sends enqueued since it was last drained
    returned,            \* history: <<student, u, origin>> once a poll returned to student
                         \*   the copy of send u held by the "session" or "student" queue
    purged,              \* history: purged[sid] = number of the first send after the
                         \*   last deletion of session sid
    inflight,            \* a poll that has loaded the document and not yet saved it
    presence,            \* data["presence"]: student -> what the last heartbeat told
    history,             \* data["history"]: student -> timeline of the tabs seen
    screenshots,         \* data["screenshots"]: student -> screenshots logged
    extension_enabled,   \* data["extension_enabled"]
    classes,             \* data["classes"]["period1"]
    student_overrides,   \* data["student_overrides"]: student -> focus_mode override
    scenes               \* scenes.json: the scenes and the current one

store == <<sessions, active_sessions, pending_by_session, pending_per_student,
           polls, exam_state, attention_check, audit>>

vars == <<sessions, active_sessions, pending_by_session, pending_per_student,
          polls, exam_state, attention_check, audit, now, response,
          nextUid, sentTo, received, enqLog, returned, purged, inflight,
          presence, history, screenshots, extension_enabled,
          classes, student_overrides, scenes>>

\* what the heartbeats and the extension switch write in the document
Telemetry == <<presence, history, screenshots, extension_enabled>>
\* the class-wide settings and the per-student overrides of the document
Settings == <<classes, student_overrides>>

-----------------------------------------------------------------------------
(* Bounds of the model *)

\* successful sends explored by Spec
MaxSends == 2
\* successful sends explored by SpecSend
MaxKindSends == 1
\* successful sends explored by SpecCap (more than the session queue holds)
MaxCapSends == 205

(* Constants of the program *)

SessionQueueCap == 200
StudentQueueCap == 50
AuditCap == 500
SecondsPerMinute == 60
MinutesPerHour == 60
HoursPerDay == 24
DaysPerWeek == 7
\* datetime.weekday() of the epoch day (a Thursday)
EpochWeekday == 3

SecondsPerHour == SecondsPerMinute * MinutesPerHour
SecondsPerDay == SecondsPerHour * HoursPerDay

SessionIds == {"s1", "s2"}
Students == {"alice", "bob"}
NoSid == ""
NoStudent == ""

-----------------------------------------------------------------------------
(* Schedule entries *)

\* a clock text "HH:MM" of a weekly entry: the key may be absent, the text
\* may hold something int() rejects, and split(":") yields `parts`
Clock(h, m) == [given |-> TRUE, numeric |-> TRUE, parts |-> <<h, m>>]
NoClock == [given |-> FALSE, numeric |-> TRUE, parts |-> <<>>]
BadClock == [given |-> TRUE, numeric |-> FALSE, parts |-> <<>>]

\* an ISO-8601 text of a one-off entry: calendar day since the epoch, clock
\* time and UTC offset in minutes
Iso(d, h, m, s, off) ==
    [given |-> TRUE, wellformed |-> TRUE, day |-> d, hour |-> h, minute |-> m,
     second |-> s, offset |-> off]
NoIso ==
    [given |-> FALSE, wellformed |-> TRUE, day |-> 0, hour |-> 0, minute |-> 0,
     second |-> 0, offset |-> 0]
BadIso ==
    [given |-> TRUE, wellformed |-> FALSE, day |-> 0, hour |-> 0, minute |-> 0,
     second |-> 0, offset |-> 0]

Weekly(days, start, end) ==
    [type |-> "weekly", days |-> days, start |-> start, end |-> end,
     startISO |-> NoIso, endISO |-> NoIso]
Oneoff(startISO, endISO) ==
    [type |-> "oneoff", days |-> {}, start |-> NoClock, end |-> NoClock,
     startISO |-> startISO, endISO |-> endISO]

\* datetime.now().weekday(), the server's local zone being UTC
Weekday(t) == ((t \div SecondsPerDay) + EpochWeekday) % DaysPerWeek
SecondOfDay(t) == t % SecondsPerDay

\* [int(x) for x in str(entry.get(key, default)).split(":")] unpacked into
\* two names: fails unless exactly two integer parts
ParseClock(c, dh, dm) ==
    IF ~c.given THEN [ok |-> TRUE, h |-> dh, m |-> dm]
    ELSE IF ~c.numeric \/ Len(c.parts) # 2 THEN [ok |-> FALSE, h |-> 0, m |-> 0]
    ELSE [ok |-> TRUE, h |-> c.parts[1], m |-> c.parts[2]]

\* now.replace(hour=h, minute=m, second=0, microsecond=0) raises ValueError
\* outside the clock's ranges
ReplaceOk(p) == p.h \in 0..(HoursPerDay - 1) /\ p.m \in 0..(MinutesPerHour - 1)
ClockSecond(p) == p.h * SecondsPerHour + p.m * SecondsPerMinute

WeeklyMatch(entry, t) ==
    LET s == ParseClock(entry.start, 0, 0)
        e == ParseClock(entry.end, 23, 59)
    IN  /\ Weekday(t) \in entry.days
        /\ s.ok /\ e.ok /\ ReplaceOk(s) /\ ReplaceOk(e)
        /\ ClockSecond(s) <= SecondOfDay(t)
        /\ SecondOfDay(t) <= ClockSecond(e)

\* datetime.fromisoformat(s).timestamp()
IsoTimestamp(i) ==
    i.day * SecondsPerDay + i.hour * SecondsPerHour
        + i.minute * SecondsPerMinute + i.second - i.offset * SecondsPerMinute

\* a one-off match that leaves the end instant out
OneoffMatchEndExclusive(entry, t) ==
    /\ entry.startISO.wellformed /\ entry.endISO.wellformed
    /\ entry.startISO.given /\ entry.endISO.given
    /\ IsoTimestamp(entry.startISO) <= t
    /\ t < IsoTimestamp(entry.endISO)

\* _oneoff_match
OneoffMatch(entry, t) ==
    /\ entry.startISO.wellformed /\ entry.endISO.wellformed
    /\ entry.startISO.given /\ entry.endISO.given
    /\ IsoTimestamp(entry.startISO) <= t
    /\ t <= IsoTimestamp(entry.endISO)

SessionIsScheduledActive(sess, t) ==
    \E i \in DOMAIN sess.schedule :
        LET ent == sess.schedule[i]
        IN  \/ ent.type = "weekly" /\ WeeklyMatch(ent, t)
            \/ ent.type = "oneoff" /\ OneoffMatch(ent, t)

-----------------------------------------------------------------------------
(* Sessions and the active set *)

DefaultControls ==
    [focusMode |-> FALSE, allowlist |-> {}, examMode |-> FALSE, examUrl |-> ""]

Session(id, students, controls, schedule, manual) ==
    [id |-> id, students |-> students, controls |-> controls,
     schedule |-> schedule, manual |-> manual]

SessionIdsOf(ss) == {ss[i].id : i \in DOMAIN ss}
SessionsWithId(ss, sid) == {ss[i] : i \in {j \in DOMAIN ss : ss[j].id = sid}}

\* a reconciliation that never drops a session whose window has closed
ReconcileKeepsExpired(ss, act, t) ==
    act \cup {ss[i].id : i \in {j \in DOMAIN ss : SessionIsScheduledActive(ss[j], t)}}

\* a reconciliation that drops every session outside its window, manual or not
ReconcileIgnoresManual(ss, act, t) ==
    {sid \in act :
        \A s \in SessionsWithId(ss, sid) : SessionIsScheduledActive(s, t)}
        \cup {ss[i].id : i \in {j \in DOMAIN ss : SessionIsScheduledActive(ss[j], t)}}

\* _reconcile_active_sessions: the stored set, plus every schedule-active
\* session, minus every session that is neither schedule-active nor manual
ReconcileActiveSessions(ss, act, t) ==
    {sid \in act :
        \A s \in SessionsWithId(ss, sid) :
            SessionIsScheduledActive(s, t) \/ s.manual}
        \cup {ss[i].id : i \in {j \in DOMAIN ss : SessionIsScheduledActive(ss[j], t)}}

\* _active_session_ids: one reconciliation pass, then the set
ActiveSessionIds(ss, act, t) == ReconcileActiveSessions(ss, act, t)

\* a selection that trusts the stored active set
StudentActiveSessionsStored(ss, act, t, student) ==
    LET keep(s) == s.id \in act /\ student \in s.students
        RECURSIVE ids(_)
        ids(i) ==
            IF i > Len(ss) THEN <<>>
            ELSE (IF keep(ss[i]) THEN <<ss[i].id>> ELSE <<>>) \o ids(i + 1)
    IN  ids(1)

\* _student_active_sessions: reconciles (twice), then lists in the order of
\* data["sessions"] the active sessions that enrol the student
StudentActiveSessions(ss, act, t, student) ==
    LET act1 == ReconcileActiveSessions(ss, act, t)
        act2 == ActiveSessionIds(ss, act1, t)
        keep(s) == s.id \in act2 /\ student \in s.students
        RECURSIVE ids(_)
        ids(i) ==
            IF i > Len(ss) THEN <<>>
            ELSE (IF keep(ss[i]) THEN <<ss[i].id>> ELSE <<>>) \o ids(i + 1)
    IN  ids(1)

-----------------------------------------------------------------------------
(* Command queues *)

\* a command: the payload's type, the session stamp, the enqueue time and,
\* for a poll, its id; uid is history (the number of the send operation)
Cmd(type, sid, t, id, uid) ==
    [type |-> type, session_id |-> sid, ts |-> t, id |-> id, uid |-> uid]

\* what the program compares when it compares two commands
Payload(c) == [type |-> c.type, session_id |-> c.session_id, ts |-> c.ts, id |-> c.id]

\* q[-n:]
LastN(q, n) == IF Len(q) > n THEN SubSeq(q, Len(q) - n + 1, Len(q)) ELSE q

\* an eviction that keeps the oldest 200 instead of the newest
EnqueueSessionCmdKeepsOldest(pbs, sid, cmd) ==
    [pbs EXCEPT ![sid] =
        IF Len(pbs[sid]) + 1 > SessionQueueCap
        THEN SubSeq(Append(pbs[sid], cmd), 1, SessionQueueCap)
        ELSE Append(pbs[sid], cmd)]

\* an enqueue that puts the command at the head of the queue
EnqueueSessionCmdInFront(pbs, sid, cmd) ==
    [pbs EXCEPT ![sid] = LastN(<<cmd>> \o pbs[sid], SessionQueueCap)]

\* _enqueue_session_cmd: append, then keep the last 200
EnqueueSessionCmd(pbs, sid, cmd) ==
    [pbs EXCEPT ![sid] =
        IF Len(pbs[sid]) + 1 > SessionQueueCap
        THEN LastN(Append(pbs[sid], cmd), SessionQueueCap)
        ELSE Append(pbs[sid], cmd)]

\* arr.append(cmd); arr[:] = arr[-50:]
EnqueueStudentCmd(pps, student, cmd) ==
    [pps EXCEPT ![student] = LastN(Append(pps[student], cmd), StudentQueueCap)]

\* .setdefault(student, []).append(cmd), with no cap
AppendStudentCmd(pps, student, cmd) ==
    [pps EXCEPT ![student] = Append(pps[student], cmd)]

\* log_action: append to data["audit"], keep the last 500
LogAction(n) == IF n + 1 > AuditCap THEN AuditCap ELSE n + 1

-----------------------------------------------------------------------------
(* Requests.  Each handler is one action: it reads the document, answers,  *)
(* and on its saving paths writes the document back.                       *)

NoCommands == <<>>
NoExamState == [set |-> FALSE, active |-> FALSE, url |-> ""]
NoAttentionCheck == [set |-> FALSE, session_id |-> NoSid, started |-> 0]

\* JSON null: the "json" of a reply whose body the model does not look at
JNull == [kind |-> "null"]

\* the "request" of a reply to a request that the session scoping of
\* /api/ requests was not modelled for
NoScope == [carrier |-> "none", sid |-> NoSid]

\* the "state" of a reply that carries no effective policy
NoState ==
    [focusMode |-> FALSE, allowlist |-> <<>>, examMode |-> FALSE, examUrl |-> "",
     session_ids |-> <<>>]

\* the reply of a request: the handler, its outcome, the session and the
\* student it named, the commands a poll returned, whether that poll
\* returned a send an earlier poll had returned to the student, the active
\* set stored when the request arrived, the effective policy of a
\* GET /api/state, how many of the commands (the first `own`) came from
\* the student's own queue, what the request carried for the session
\* scoping, and the JSON body of the reply
Resp(op, status, sid, student, commands, again, was) ==
    [op |-> op, status |-> status, sid |-> sid, student |-> student,
     commands |-> commands, again |-> again, was |-> was, state |-> NoState,
     own |-> 0, request |-> NoScope, json |-> JNull]

\* no poll is between its load_data and its save_data
NoRequest == [student |-> NoStudent]
\* _ensure_scenes_shape({}): no scene in either bucket and no current scene
NoCurrent == [set |-> FALSE, id |-> 0, type |-> ""]
NoScenes == [allowed |-> <<>>, blocked |-> <<>>, current |-> NoCurrent]

History == <<nextUid, sentTo, received, enqLog, returned, purged>>

\* an early return: the reply, with no save_data
Reject(op, status, sid, student) ==
    /\ response' = Resp(op, status, sid, student, NoCommands, FALSE, active_sessions)
    /\ UNCHANGED <<store, now, History, inflight, Telemetry, Settings, scenes>>

\* the reply of a request that saved
Reply(op, sid, student) ==
    response' = Resp(op, "ok", sid, student, NoCommands, FALSE, active_sessions)

\* a gate that trusts the stored active set without reconciling it
SessionIsActiveStored(sid) == sid \in active_sessions

\* `if sid not in _active_session_ids(d)`: the gate of every session send
SessionIsActiveNow(sid) == sid \in ActiveSessionIds(sessions, active_sessions, now)

\* a send that went through: the document is saved with the active set the
\* gate reconciled, log_action then appends to the audit log (`logged`), and
\* the history records the send
Sent(sid, student, pbs, pps, logged) ==
    /\ active_sessions' = ActiveSessionIds(sessions, active_sessions, now)
    /\ pending_by_session' = pbs
    /\ pending_per_student' = pps
    /\ audit' = IF logged THEN LogAction(audit) ELSE audit
    /\ nextUid' = nextUid + 1
    /\ sentTo' = Append(sentTo, sid)
    /\ enqLog' = [enqLog EXCEPT ![sid] = Append(@, nextUid)]
    /\ UNCHANGED <<sessions, now, received, returned, purged, inflight, Telemetry, Settings, scenes>>

\* a stamping that keeps the session_id the payload brought, if it brought one
StampKeepsGiven(given, sid) == IF given # NoSid THEN given ELSE sid

\* cmd = dict(cmd); cmd["session_id"] = sid: whatever session_id the payload
\* carried (`given`, NoSid for none) is overwritten
Stamp(given, sid) == sid

\* POST /api/command
ApiCommand(sid, type, target, given) ==
    IF sid = NoSid THEN Reject("command", "session required", sid, target)
    ELSE IF ~SessionIsActiveNow(sid)
    THEN Reject("command", "session not active", sid, target)
    ELSE IF type = "" THEN Reject("command", "invalid", sid, target)
    ELSE LET cmd == Cmd(type, Stamp(given, sid), now, "", nextUid)
             pbs == EnqueueSessionCmd(pending_by_session, sid, cmd)
             pps == IF target # NoStudent
                    THEN EnqueueStudentCmd(pending_per_student, target, cmd)
                    ELSE pending_per_student
         IN  /\ Sent(sid, target, pbs, pps, TRUE)
             /\ Reply("command", sid, target)
             /\ UNCHANGED <<polls, exam_state, attention_check>>

\* POST /api/commands/<student>
ApiCommandsPost(student, sid, type, given) ==
    IF sid = NoSid THEN Reject("commands_post", "session required", sid, student)
    ELSE IF ~SessionIsActiveNow(sid)
    THEN Reject("commands_post", "session not active", sid, student)
    ELSE IF type = "" THEN Reject("commands_post", "missing type", sid, student)
    ELSE LET cmd == Cmd(type, Stamp(given, sid), now, "", nextUid)
             pbs == EnqueueSessionCmd(pending_by_session, sid, cmd)
             pps == AppendStudentCmd(pending_per_student, student, cmd)
         IN  /\ Sent(sid, student, pbs, pps, TRUE)
             /\ Reply("commands_post", sid, student)
             /\ UNCHANGED <<polls, exam_state, attention_check>>

\* POST /api/notify
ApiNotify(sid) ==
    IF sid = NoSid THEN Reject("notify", "session required", sid, NoStudent)
    ELSE IF ~SessionIsActiveNow(sid)
    THEN Reject("notify", "session not active", sid, NoStudent)
    ELSE LET cmd == Cmd("notify", sid, now, "", nextUid)
             pbs == EnqueueSessionCmd(pending_by_session, sid, cmd)
         IN  /\ Sent(sid, NoStudent, pbs, pending_per_student, TRUE)
             /\ Reply("notify", sid, NoStudent)
             /\ UNCHANGED <<polls, exam_state, attention_check>>

\* "poll_" + str(int(time.time() * 1000))
PollId(t) == t * 1000

\* POST /api/poll
ApiPoll(sid, wellformed) ==
    IF ~wellformed
    THEN Reject("poll", "question and options required", sid, NoStudent)
    ELSE IF sid = NoSid THEN Reject("poll", "session required", sid, NoStudent)
    ELSE IF ~SessionIsActiveNow(sid)
    THEN Reject("poll", "session not active", sid, NoStudent)
    ELSE LET cmd == Cmd("poll", sid, now, "poll", nextUid)
             pbs == EnqueueSessionCmd(pending_by_session, sid, cmd)
         IN  /\ Sent(sid, NoStudent, pbs, pending_per_student, TRUE)
             /\ polls' = polls \cup {PollId(now)}
             /\ Reply("poll", sid, NoStudent)
             /\ UNCHANGED <<exam_state, attention_check>>

\* POST /api/exam
ApiExam(sid, action, url) ==
    IF sid = NoSid THEN Reject("exam", "session required", sid, NoStudent)
    ELSE IF ~SessionIsActiveNow(sid)
    THEN Reject("exam", "session not active", sid, NoStudent)
    ELSE IF action = "start" /\ url = ""
    THEN Reject("exam", "url required", sid, NoStudent)
    ELSE IF action = "start"
    THEN LET cmd == Cmd("exam_start", sid, now, "", nextUid)
             pbs == EnqueueSessionCmd(pending_by_session, sid, cmd)
         IN  /\ Sent(sid, NoStudent, pbs, pending_per_student, TRUE)
             /\ exam_state' = [set |-> TRUE, active |-> TRUE, url |-> url]
             /\ Reply("exam", sid, NoStudent)
             /\ UNCHANGED <<polls, attention_check>>
    ELSE IF action = "end"
    THEN LET cmd == Cmd("exam_end", sid, now, "", nextUid)
             pbs == EnqueueSessionCmd(pending_by_session, sid, cmd)
         IN  /\ Sent(sid, NoStudent, pbs, pending_per_student, TRUE)
             /\ exam_state' = [exam_state EXCEPT !.set = TRUE, !.active = FALSE]
             /\ Reply("exam", sid, NoStudent)
             /\ UNCHANGED <<polls, attention_check>>
    ELSE Reject("exam", "invalid action", sid, NoStudent)

\* POST /api/attention_check
ApiAttentionCheck(sid) ==
    IF sid = NoSid THEN Reject("attention_check", "session required", sid, NoStudent)
    ELSE IF ~SessionIsActiveNow(sid)
    THEN Reject("attention_check", "session not active", sid, NoStudent)
    ELSE LET cmd == Cmd("attention_check", sid, now, "", nextUid)
             pbs == EnqueueSessionCmd(pending_by_session, sid, cmd)
         IN  /\ Sent(sid, NoStudent, pbs, pending_per_student, TRUE)
             /\ attention_check' = [set |-> TRUE, session_id |-> sid, started |-> now]
             /\ Reply("attention_check", sid, NoStudent)
             /\ UNCHANGED <<polls, exam_state>>

\* a per-student send that names no session: the document is saved as
\* loaded but for the student's queue
SentToStudent(student, pps, logged) ==
    /\ pending_per_student' = pps
    /\ audit' = IF logged THEN LogAction(audit) ELSE audit
    /\ nextUid' = nextUid + 1
    /\ sentTo' = Append(sentTo, NoSid)
    /\ UNCHANGED <<sessions, active_sessions, pending_by_session, polls,
                   exam_state, attention_check, now, received, enqLog,
                   returned, purged, inflight, Telemetry, Settings, scenes>>

\* POST /api/open_tabs.  Here log_action runs before save_data(d): the
\* handler's save writes back the document it loaded earlier, so the audit
\* entry that log_action saved is overwritten and the log does not grow
ApiOpenTabsAlias(student, sid, hasUrls) ==
    IF ~hasUrls THEN Reject("open_tabs", "urls required", sid, student)
    ELSE IF student # NoStudent
    THEN LET cmd == Cmd("open_tabs", NoSid, now, "", nextUid)
         IN  /\ SentToStudent(student,
                    EnqueueStudentCmd(pending_per_student, student, cmd), FALSE)
             /\ Reply("open_tabs", NoSid, student)
    ELSE IF sid = NoSid THEN Reject("open_tabs", "session required", sid, student)
    ELSE IF ~SessionIsActiveNow(sid)
    THEN Reject("open_tabs", "session not active", sid, student)
    ELSE LET cmd == Cmd("open_tabs", sid, now, "", nextUid)
             pbs == EnqueueSessionCmd(pending_by_session, sid, cmd)
         IN  /\ Sent(sid, NoStudent, pbs, pending_per_student, FALSE)
             /\ Reply("open_tabs", sid, NoStudent)
             /\ UNCHANGED <<polls, exam_state, attention_check>>

\* POST /api/student/tabs_action
ApiStudentTabsAction(student, action) ==
    IF student = NoStudent \/ action \notin {"restore_tabs", "close_tabs"}
    THEN Reject("tabs_action", "student and valid action required", NoSid, student)
    ELSE LET cmd == Cmd(action, NoSid, now, "", nextUid)
         IN  /\ SentToStudent(student,
                    EnqueueStudentCmd(pending_per_student, student, cmd), TRUE)
             /\ Reply("tabs_action", NoSid, student)

\* POST /api/student/open_tabs
ApiStudentOpenTabs(student, sid, hasUrls) ==
    IF student = NoStudent \/ ~hasUrls
    THEN Reject("student_open_tabs", "student and urls required", sid, student)
    ELSE IF sid # NoSid /\ ~SessionIsActiveNow(sid)
    THEN Reject("student_open_tabs", "session not active", sid, student)
    ELSE LET cmd == Cmd("open_tabs", sid, now, "", nextUid)
             pps == EnqueueStudentCmd(pending_per_student, student, cmd)
         IN  /\ pending_per_student' = pps
             /\ active_sessions' =
                    IF sid # NoSid
                    THEN ActiveSessionIds(sessions, active_sessions, now)
                    ELSE active_sessions
             /\ nextUid' = nextUid + 1
             /\ sentTo' = Append(sentTo, NoSid)
             /\ Reply("student_open_tabs", sid, student)
             /\ UNCHANGED <<sessions, pending_by_session, polls, exam_state,
                            attention_check, audit, now, received, enqLog,
                            returned, purged, inflight, Telemetry, Settings, scenes>>

\* the commands of `queue` a poll takes for session sid: those stamped sid
ToTake(queue, sid) == SelectSeq(queue, LAMBDA c : c.session_id = sid)

\* a poll that returns the commands and leaves them in the queue
RemainingKeepsAll(queue, sid) == queue

\* [c for c in queue if c not in to_take]
Remaining(queue, sid) ==
    LET taken == ToTake(queue, sid)
    IN  SelectSeq(queue,
            LAMBDA c : \A i \in DOMAIN taken : Payload(taken[i]) # Payload(c))

\* the session part of a poll's reply: for each session of `sids` in order,
\* the commands taken from its queue
RECURSIVE SessionCommands(_, _)
SessionCommands(pbs, sids) ==
    IF sids = <<>> THEN <<>>
    ELSE ToTake(pbs[Head(sids)], Head(sids)) \o SessionCommands(pbs, Tail(sids))

SeqRange(q) == {q[i] : i \in DOMAIN q}
Uids(q) == [i \in DOMAIN q |-> q[i].uid]

\* a drain that returns the student's queue and leaves it in place
DrainStudentKeeps(pps, student) == pps

\* d["pending_per_student"][student] = []
DrainStudent(pps, student) == [pps EXCEPT ![student] = <<>>]

\* the document a request holds between load_data and save_data
Document ==
    [sessions |-> sessions, active_sessions |-> active_sessions,
     pending_by_session |-> pending_by_session,
     pending_per_student |-> pending_per_student, polls |-> polls,
     exam_state |-> exam_state, attention_check |-> attention_check,
     audit |-> audit]

\* GET /api/commands/<student>, first half: load_data.  The server handles
\* requests on concurrent threads and nothing locks data.json, so other
\* requests may run before the second half
ApiCommandsGetLoad(student) ==
    /\ inflight.student = NoStudent
    /\ inflight' = [student |-> student, d |-> Document]
    /\ UNCHANGED <<store, now, response, History, Telemetry, Settings, scenes>>

\* a poll that reads the document again, under a lock, when it saves
LoadedFresh == Document

\* d = ensure_keys(load_data()): the copy the poll works on and saves
Loaded == inflight.d

\* GET /api/commands/<student>, second half: the drain computed on the
\* document that was loaded, and save_data of that whole document
ApiCommandsGetSave ==
    /\ inflight.student # NoStudent
    /\ LET student == inflight.student
           d == Loaded
           per_stu == d.pending_per_student[student]
           active_sids == StudentActiveSessions(d.sessions, d.active_sessions, now, student)
           out == per_stu \o SessionCommands(d.pending_by_session, active_sids)
           pbs == [sid \in DOMAIN d.pending_by_session |->
                      IF sid \in SeqRange(active_sids)
                      THEN Remaining(d.pending_by_session[sid], sid)
                      ELSE d.pending_by_session[sid]]
           again == \E i \in DOMAIN out : <<student, out[i].uid>> \in received
       IN  /\ sessions' = d.sessions
           /\ active_sessions' =
                  ActiveSessionIds(d.sessions,
                      ReconcileActiveSessions(d.sessions, d.active_sessions, now), now)
           /\ pending_by_session' = pbs
           /\ pending_per_student' = DrainStudent(d.pending_per_student, student)
           /\ polls' = d.polls
           /\ exam_state' = d.exam_state
           /\ attention_check' = d.attention_check
           /\ audit' = d.audit
           /\ received' = received \cup {<<student, out[i].uid>> : i \in DOMAIN out}
           /\ returned' = returned
                  \cup {<<student, out[i].uid, IF i <= Len(per_stu) THEN "student" ELSE "session">> :
                           i \in DOMAIN out}
           /\ enqLog' = [sid \in DOMAIN enqLog |->
                            IF sid \in SeqRange(active_sids)
                            THEN Uids(pbs[sid]) ELSE enqLog[sid]]
           /\ response' = [Resp("commands_get", "ok", NoSid, student, out, again,
                                active_sessions) EXCEPT !.own = Len(per_stu)]
           /\ inflight' = NoRequest
           /\ UNCHANGED <<now, nextUid, sentTo, purged, Telemetry, Settings, scenes>>

-----------------------------------------------------------------------------
(* Effective policy *)

\* the allowlist entries of the model, in the order sorted() puts them
UrlsInOrder == <<"a.com", "b.com">>

\* sorted(list(allow))
Sorted(allow) == SelectSeq(UrlsInOrder, LAMBDA u : u \in allow)

Controls(focusMode, allowlist, examMode, examUrl) ==
    [focusMode |-> focusMode, allowlist |-> allowlist, examMode |-> examMode,
     examUrl |-> examUrl]

\* the examUrl of the first session of `relevant` that is in exam mode and
\* names one
RECURSIVE FirstExamUrl(_)
FirstExamUrl(relevant) ==
    IF relevant = <<>> THEN ""
    ELSE IF Head(relevant).controls.examMode /\ Head(relevant).controls.examUrl # ""
    THEN Head(relevant).controls.examUrl
    ELSE FirstExamUrl(Tail(relevant))

\* a composition that trusts the stored active set
EffectiveStateStored(ss, act, t, student) ==
    LET relevant == SelectSeq(ss, LAMBDA s : s.id \in act /\ student \in s.students)
    IN  [focusMode |-> \E i \in DOMAIN relevant : relevant[i].controls.focusMode,
         allowlist |-> Sorted(UNION {relevant[i].controls.allowlist : i \in DOMAIN relevant}),
         examMode |-> \E i \in DOMAIN relevant : relevant[i].controls.examMode,
         examUrl |-> FirstExamUrl(relevant),
         session_ids |-> [i \in DOMAIN relevant |-> relevant[i].id]]

\* a composition in which each session overwrites the allowlist of the ones
\* before it
EffectiveStateLastAllowlist(ss, act, t, student) ==
    LET active_ids == ReconcileActiveSessions(ss, act, t)
        relevant == SelectSeq(ss, LAMBDA s : s.id \in active_ids /\ student \in s.students)
    IN  [focusMode |-> \E i \in DOMAIN relevant : relevant[i].controls.focusMode,
         allowlist |-> IF relevant = <<>> THEN <<>>
                       ELSE Sorted(relevant[Len(relevant)].controls.allowlist),
         examMode |-> \E i \in DOMAIN relevant : relevant[i].controls.examMode,
         examUrl |-> FirstExamUrl(relevant),
         session_ids |-> [i \in DOMAIN relevant |-> relevant[i].id]]

\* _effective_state_for_student
EffectiveStateForStudent(ss, act, t, student) ==
    LET active_ids == ReconcileActiveSessions(ss, act, t)
        relevant == SelectSeq(ss, LAMBDA s : s.id \in active_ids /\ student \in s.students)
    IN  [focusMode |-> \E i \in DOMAIN relevant : relevant[i].controls.focusMode,
         allowlist |-> Sorted(UNION {relevant[i].controls.allowlist : i \in DOMAIN relevant}),
         examMode |-> \E i \in DOMAIN relevant : relevant[i].controls.examMode,
         examUrl |-> FirstExamUrl(relevant),
         session_ids |-> [i \in DOMAIN relevant |-> relevant[i].id]]

\* GET /api/state/<student_id>: composes and replies; nothing is saved
ApiStateForStudent(student) ==
    /\ response' =
           [Resp("state", "ok", NoSid, student, NoCommands, FALSE, active_sessions)
               EXCEPT !.state = EffectiveStateForStudent(sessions, active_sessions, now, student)]
    /\ UNCHANGED <<store, now, History, inflight, Telemetry, Settings, scenes>>

-----------------------------------------------------------------------------
(* Session management *)

\* a create that appends without removing the session of the same id
ApiSessionsPostAppends(sess) ==
    /\ sessions' = Append(sessions, sess)
    /\ response' = [Resp("sessions_post", "ok", sess.id, NoStudent, NoCommands, FALSE,
                          active_sessions) EXCEPT !.json = sess]
    /\ UNCHANGED <<active_sessions, pending_by_session, pending_per_student,
                   polls, exam_state, attention_check, audit, now, History, inflight, Telemetry, Settings, scenes>>

\* POST /api/sessions: the new definition replaces any session of its id;
\* the reply carries it
ApiSessionsPost(sess) ==
    /\ sessions' = Append(SelectSeq(sessions, LAMBDA s : s.id # sess.id), sess)
    /\ response' = [Resp("sessions_post", "ok", sess.id, NoStudent, NoCommands, FALSE,
                          active_sessions) EXCEPT !.json = sess]
    /\ UNCHANGED <<active_sessions, pending_by_session, pending_per_student,
                   polls, exam_state, attention_check, audit, now, History, inflight, Telemetry, Settings, scenes>>

\* for k in (...): if k in body: s[k] = body[k]
UpdatableKeys == {"name", "teacher", "students", "controls", "schedule", "manual"}
Updated(s, body) ==
    [k \in DOMAIN s |->
        IF k \in DOMAIN body \cap UpdatableKeys THEN body[k] ELSE s[k]]

FirstWithId(ss, sid) ==
    IF sid \in SessionIdsOf(ss)
    THEN CHOOSE i \in DOMAIN ss :
            ss[i].id = sid /\ \A j \in 1..(i - 1) : ss[j].id # sid
    ELSE 0

\* PUT /api/sessions/<sid>
ApiSessionItemPut(sid, body) ==
    /\ sessions' = [i \in DOMAIN sessions |->
                       IF i = FirstWithId(sessions, sid)
                       THEN Updated(sessions[i], body) ELSE sessions[i]]
    /\ Reply("session_put", sid, NoStudent)
    /\ UNCHANGED <<active_sessions, pending_by_session, pending_per_student,
                   polls, exam_state, attention_check, audit, now, History, inflight, Telemetry, Settings, scenes>>

\* a delete that removes the session and leaves its id in the active set
ApiSessionItemDeleteKeepsActive(sid) ==
    /\ sessions' = SelectSeq(sessions, LAMBDA s : s.id # sid)
    /\ purged' = IF sid \in SessionIdsOf(sessions)
                  THEN [purged EXCEPT ![sid] = nextUid] ELSE purged
    /\ Reply("session_delete", sid, NoStudent)
    /\ UNCHANGED <<active_sessions, pending_by_session, pending_per_student, polls,
                   exam_state, attention_check, audit, now, nextUid, sentTo, received,
                   enqLog, returned, inflight, Telemetry, Settings, scenes>>

\* DELETE /api/sessions/<sid>
ApiSessionItemDelete(sid) ==
    /\ sessions' = SelectSeq(sessions, LAMBDA s : s.id # sid)
    /\ active_sessions' = active_sessions \ {sid}
    /\ purged' = IF sid \in SessionIdsOf(sessions)
                  THEN [purged EXCEPT ![sid] = nextUid] ELSE purged
    /\ Reply("session_delete", sid, NoStudent)
    /\ UNCHANGED <<pending_by_session, pending_per_student, polls, exam_state,
                   attention_check, audit, now, nextUid, sentTo, received, enqLog,
                   returned, inflight, Telemetry, Settings, scenes>>

SetManual(ss, sid, flag) ==
    [i \in DOMAIN ss |->
        IF ss[i].id = sid THEN [ss[i] EXCEPT !.manual = flag] ELSE ss[i]]

\* a start that sets the flag and leaves activation to the next reconciliation
ApiSessionStartFlagOnly(sid) ==
    IF sid \notin SessionIdsOf(sessions)
    THEN Reject("session_start", "not found", sid, NoStudent)
    ELSE /\ sessions' = SetManual(sessions, sid, TRUE)
         /\ Reply("session_start", sid, NoStudent)
         /\ UNCHANGED <<active_sessions, pending_by_session, pending_per_student,
                        polls, exam_state, attention_check, audit, now, History, inflight, Telemetry, Settings, scenes>>

\* POST /api/sessions/<sid>/start
ApiSessionStart(sid) ==
    IF sid \notin SessionIdsOf(sessions)
    THEN Reject("session_start", "not found", sid, NoStudent)
    ELSE /\ active_sessions' = active_sessions \cup {sid}
         /\ sessions' = SetManual(sessions, sid, TRUE)
         /\ Reply("session_start", sid, NoStudent)
         /\ UNCHANGED <<pending_by_session, pending_per_student, polls,
                        exam_state, attention_check, audit, now, History, inflight, Telemetry, Settings, scenes>>

\* an end that clears the flag and leaves removal to the next reconciliation
ApiSessionEndFlagOnly(sid) ==
    /\ sessions' = SetManual(sessions, sid, FALSE)
    /\ Reply("session_end", sid, NoStudent)
    /\ UNCHANGED <<active_sessions, pending_by_session, pending_per_student,
                   polls, exam_state, attention_check, audit, now, History, inflight, Telemetry, Settings, scenes>>

\* an end that also discards what waits in the session's queue
ApiSessionEndPurges(sid) ==
    /\ active_sessions' = active_sessions \ {sid}
    /\ sessions' = SetManual(sessions, sid, FALSE)
    /\ pending_by_session' = [pending_by_session EXCEPT ![sid] = <<>>]
    /\ Reply("session_end", sid, NoStudent)
    /\ UNCHANGED <<pending_per_student, polls, exam_state, attention_check, audit,
                   now, History, inflight, Telemetry, Settings, scenes>>

\* POST /api/sessions/<sid>/end
ApiSessionEnd(sid) ==
    /\ active_sessions' = active_sessions \ {sid}
    /\ sessions' = SetManual(sessions, sid, FALSE)
    /\ Reply("session_end", sid, NoStudent)
    /\ UNCHANGED <<pending_by_session, pending_per_student, polls, exam_state,
                   attention_check, audit, now, History, inflight, Telemetry, Settings, scenes>>

\* a reconciliation that empties the queue of every session it finds inactive
ApiSessionsActivePurges ==
    LET act == ReconcileActiveSessions(sessions, active_sessions, now)
    IN  /\ active_sessions' = act
        /\ pending_by_session' =
               [sid \in DOMAIN pending_by_session |->
                   IF sid \in act THEN pending_by_session[sid] ELSE <<>>]
        /\ Reply("sessions_active", NoSid, NoStudent)
        /\ UNCHANGED <<sessions, pending_per_student, polls, exam_state,
                       attention_check, audit, now, History, inflight, Telemetry,
                       Settings, scenes>>

\* GET /api/sessions and GET /api/sessions/active: reconcile, save, list
ApiSessionsActive ==
    /\ active_sessions' = ReconcileActiveSessions(sessions, active_sessions, now)
    /\ Reply("sessions_active", NoSid, NoStudent)
    /\ UNCHANGED <<sessions, pending_by_session, pending_per_student, polls,
                   exam_state, attention_check, audit, now, History, inflight, Telemetry, Settings, scenes>>

\* time passes: no request has been handled since
Tick(instants) ==
    /\ \E t \in instants : t > now /\ now' = t
    /\ response' = Resp("none", "ok", NoSid, NoStudent, NoCommands, FALSE, active_sessions)
    /\ UNCHANGED <<store, History, inflight, Telemetry, Settings, scenes>>

-----------------------------------------------------------------------------
(* Class settings, scenes and the policy a student is given.  The requests *)
(* carry no session id, so _load_scenes reads the global scenes.json.      *)

\* b laid over a: dict.update, and the `if key in body` assignments
Update(a, b) ==
    [k \in DOMAIN a \cup DOMAIN b |-> IF k \in DOMAIN b THEN b[k] ELSE a[k]]

\* POST /api/class/set: the lists given replace the class's
ApiClassSet(body) ==
    /\ classes' = Update(classes, [k \in DOMAIN body \cap {"teacher_blocks", "allowlist"} |-> body[k]])
    /\ audit' = LogAction(audit)
    /\ Reply("class_set", NoSid, NoStudent)
    /\ UNCHANGED <<sessions, active_sessions, pending_by_session, pending_per_student,
                   polls, exam_state, attention_check, now, History, inflight,
                   Telemetry, student_overrides, scenes>>

\* POST /api/class/toggle, as a teacher
ApiClassToggle(key, val) ==
    IF key \in {"focus_mode", "paused"}
    THEN /\ classes' = [classes EXCEPT ![key] = val]
         /\ audit' = LogAction(audit)
         /\ Reply("class_toggle", NoSid, NoStudent)
         /\ UNCHANGED <<sessions, active_sessions, pending_by_session, pending_per_student,
                        polls, exam_state, attention_check, now, History, inflight,
                        Telemetry, student_overrides, scenes>>
    ELSE Reject("class_toggle", "invalid", NoSid, NoStudent)

\* POST /api/student/set, as a teacher: the flags given are laid over the
\* student's overrides
ApiStudentSet(student, body) ==
    IF student = NoStudent
    THEN Reject("student_set", "student required", NoSid, student)
    ELSE LET ov == IF student \in DOMAIN student_overrides
                   THEN student_overrides[student] ELSE <<>>
             new == Update(ov, [k \in DOMAIN body \cap {"focus_mode", "paused"} |-> body[k]])
         IN  /\ student_overrides' = Update(student_overrides, [st \in {student} |-> new])
             /\ audit' = LogAction(audit)
             /\ Reply("student_set", NoSid, student)
             /\ UNCHANGED <<sessions, active_sessions, pending_by_session,
                            pending_per_student, polls, exam_state, attention_check,
                            now, History, inflight, Telemetry, classes, scenes>>

\* str(int(time.time() * 1000))
SceneId(t) == t * 1000

Scene(id, type, allow, block) == [id |-> id, type |-> type, allow |-> allow, block |-> block]

\* POST /api/scenes: the scene joins the bucket of its type
ApiScenesCreate(type, allow, block) ==
    IF type \notin {"allowed", "blocked"}
    THEN Reject("scenes_create", "name and valid type required", NoSid, NoStudent)
    ELSE /\ scenes' = [scenes EXCEPT ![type] = Append(@, Scene(SceneId(now), type, allow, block))]
         /\ audit' = LogAction(audit)
         /\ Reply("scenes_create", NoSid, NoStudent)
         /\ UNCHANGED <<sessions, active_sessions, pending_by_session, pending_per_student,
                        polls, exam_state, attention_check, now, History, inflight,
                        Telemetry, Settings>>

\* the index in bucket of the first scene with the id, 0 for none
FirstScene(bucket, id) ==
    LET hits == {i \in DOMAIN bucket : bucket[i].id = id}
    IN  IF hits = {} THEN 0 ELSE CHOOSE i \in hits : \A j \in hits : i <= j

\* PUT /api/scenes/<sid>: body.update on the first scene with the id in
\* each bucket (the `break` leaves the inner loop only)
ApiScenesUpdate(id, body) ==
    LET upd(bucket) ==
            [i \in DOMAIN bucket |->
                IF i = FirstScene(bucket, id) THEN Update(bucket[i], body) ELSE bucket[i]]
    IN  IF FirstScene(scenes.allowed, id) = 0 /\ FirstScene(scenes.blocked, id) = 0
        THEN Reject("scenes_update", "not found", NoSid, NoStudent)
        ELSE /\ scenes' = [scenes EXCEPT !.allowed = upd(@), !.blocked = upd(@)]
             /\ audit' = LogAction(audit)
             /\ Reply("scenes_update", NoSid, NoStudent)
             /\ UNCHANGED <<sessions, active_sessions, pending_by_session,
                            pending_per_student, polls, exam_state, attention_check,
                            now, History, inflight, Telemetry, Settings>>

\* the first scene with the id, looked for in the allowed bucket and then
\* in the blocked one; [found |-> FALSE] for none
FindScene(sc, id) ==
    IF FirstScene(sc.allowed, id) # 0
    THEN [found |-> TRUE, scene |-> sc.allowed[FirstScene(sc.allowed, id)]]
    ELSE IF FirstScene(sc.blocked, id) # 0
    THEN [found |-> TRUE, scene |-> sc.blocked[FirstScene(sc.blocked, id)]]
    ELSE [found |-> FALSE]

\* POST /api/scenes/apply, as a teacher: the scene becomes the current one,
\* or with `disable` no scene is
ApiScenesApply(id, disable) ==
    LET hit == FindScene(scenes, id)
        saved(cur) ==
            /\ scenes' = [scenes EXCEPT !.current = cur]
            /\ audit' = LogAction(audit)
            /\ Reply("scenes_apply", NoSid, NoStudent)
            /\ UNCHANGED <<sessions, active_sessions, pending_by_session,
                           pending_per_student, polls, exam_state, attention_check,
                           now, History, inflight, Telemetry, Settings>>
    IN  IF disable THEN saved(NoCurrent)
        ELSE IF ~hit.found THEN Reject("scenes_apply", "scene not found", NoSid, NoStudent)
        ELSE saved([set |-> TRUE, id |-> hit.scene.id, type |-> hit.scene.type])

\* a merge in which an allow-type scene adds its allow list to the class's
PolicyMergeExtends(cls, ov, sc) ==
    LET focus == IF "focus_mode" \in DOMAIN ov THEN ov.focus_mode ELSE cls.focus_mode
        hit == IF sc.current.set THEN FindScene(sc, sc.current.id) ELSE [found |-> FALSE]
    IN  IF hit.found /\ hit.scene.type = "allowed"
        THEN [focus_mode |-> TRUE, allowlist |-> cls.allowlist \o hit.scene.allow,
              teacher_blocks |-> cls.teacher_blocks]
        ELSE IF hit.found /\ hit.scene.type = "blocked"
        THEN [focus_mode |-> focus, allowlist |-> cls.allowlist,
              teacher_blocks |-> cls.teacher_blocks \o hit.scene.block]
        ELSE [focus_mode |-> focus, allowlist |-> cls.allowlist,
              teacher_blocks |-> cls.teacher_blocks]

\* the focus_mode, allowlist and teacher_blocks of api_policy's reply: the
\* class's, the student's override of focus_mode over it, and the merge of
\* the scene that has the id of the current scene
PolicyMerge(cls, ov, sc) ==
    LET focus == IF "focus_mode" \in DOMAIN ov THEN ov.focus_mode ELSE cls.focus_mode
        hit == IF sc.current.set THEN FindScene(sc, sc.current.id) ELSE [found |-> FALSE]
    IN  IF hit.found /\ hit.scene.type = "allowed"
        THEN [focus_mode |-> TRUE, allowlist |-> hit.scene.allow,
              teacher_blocks |-> cls.teacher_blocks]
        ELSE IF hit.found /\ hit.scene.type = "blocked"
        THEN [focus_mode |-> focus, allowlist |-> cls.allowlist,
              teacher_blocks |-> cls.teacher_blocks \o hit.scene.block]
        ELSE [focus_mode |-> focus, allowlist |-> cls.allowlist,
              teacher_blocks |-> cls.teacher_blocks]

\* POST /api/policy: the student's per-student queue is the reply's
\* "pending" and its key is popped; the document is saved before
\* _student_active_sessions reconciles, so nothing else changes.  The reply
\* carries the merged focus_mode, allowlist and teacher_blocks
ApiPolicy(student) ==
    LET pending == IF student # NoStudent THEN pending_per_student[student] ELSE <<>>
        ov == IF student # NoStudent /\ student \in DOMAIN student_overrides
              THEN student_overrides[student] ELSE <<>>
        again == \E i \in DOMAIN pending : <<student, pending[i].uid>> \in received
    IN  /\ pending_per_student' =
               IF student # NoStudent
               THEN DrainStudent(pending_per_student, student)
               ELSE pending_per_student
        /\ received' = received \cup {<<student, pending[i].uid>> : i \in DOMAIN pending}
        /\ returned' = returned
               \cup {<<student, pending[i].uid, "student">> : i \in DOMAIN pending}
        /\ response' = [Resp("policy", "ok", NoSid, student, pending, again,
                             active_sessions) EXCEPT !.own = Len(pending),
                                                     !.json = PolicyMerge(classes, ov, scenes)]
        /\ UNCHANGED <<sessions, active_sessions, pending_by_session, polls,
                       exam_state, attention_check, audit, now, nextUid, sentTo,
                       enqLog, purged, inflight, Telemetry, Settings, scenes>>

-----------------------------------------------------------------------------
(* Heartbeats.  Identities are sequences of characters, so that strip,     *)
(* lower and substring search are what they are in the code.               *)

\* _GUEST_TOKENS
GuestTokens ==
    {<<"g", "u", "e", "s", "t">>, <<"a", "n", "o", "n">>,
     <<"a", "n", "o", "n", "y", "m", "o", "u", "s">>,
     <<"t", "r", "i", "a", "l">>, <<"t", "e", "m", "p">>}

\* str.lower(), on the capitals the model writes
LowerChar(ch) ==
    IF ch = "G" THEN "g" ELSE IF ch = "A" THEN "a" ELSE IF ch = "T" THEN "t" ELSE ch
Lower(text) == [i \in DOMAIN text |-> LowerChar(text[i])]

\* str.strip()
RECURSIVE StripChars(_)
StripChars(text) ==
    IF text = <<>> THEN text
    ELSE IF Head(text) = " " THEN StripChars(Tail(text))
    ELSE IF text[Len(text)] = " " THEN StripChars(SubSeq(text, 1, Len(text) - 1))
    ELSE text

\* `t in e`
Contains(text, token) ==
    \E i \in 1..(Len(text) - Len(token) + 1) :
        SubSeq(text, i, i + Len(token) - 1) = token

\* a check that looks at the student id only
IsGuestIdentityIdOnly(email, name) ==
    LET e == Lower(StripChars(email))
    IN  e = <<>> \/ \E t \in GuestTokens : Contains(e, t)

\* _is_guest_identity
IsGuestIdentity(email, name) ==
    LET e == Lower(StripChars(email))
        n == Lower(StripChars(name))
    IN  \/ e = <<>>
        \/ \E t \in GuestTokens : Contains(e, t)
        \/ \E t \in GuestTokens : Contains(n, t)

HistoryCap == 500
ScreenshotsCap == 200
\* a new timeline entry is due when the url is the same after this long
TimelineGap == 15

\* a heartbeat's request and reply
Beat(student, name, enabled) ==
    [Resp("heartbeat", "ok", NoSid, NoStudent, NoCommands, FALSE, active_sessions)
        EXCEPT !.request = [carrier |-> "none", sid |-> NoSid,
                            student |-> student, student_name |-> name],
               !.json = [extension_enabled |-> enabled]]

\* POST /api/heartbeat with the student id and display name as given, the
\* url of the current tab and `shots` entries in shot_log.  A guest is
\* answered before anything is written; otherwise presence is overwritten,
\* the timeline grows when the url is new or TimelineGap has passed, the
\* screenshots grow by the entries given, and the document is saved
ApiHeartbeat(given, name, url, shots) ==
    LET student == StripChars(given)
        known(f) == IF student \in DOMAIN f THEN f[student] ELSE <<>>
        timeline == known(history)
        should_add ==
            /\ url # ""
            /\ \/ timeline = <<>>
               \/ timeline[Len(timeline)].url # url
               \/ now - timeline[Len(timeline)].ts >= TimelineGap
        hist == known(screenshots) \o [i \in 1..shots |-> [ts |-> now]]
    IN  IF IsGuestIdentity(student, name)
        THEN /\ response' = Beat(given, name, FALSE)
             /\ UNCHANGED <<store, now, History, inflight, Telemetry, Settings, scenes>>
        ELSE /\ presence' = Update(presence,
                    [st \in {student} |-> [last_seen |-> now, student_name |-> name, url |-> url]])
             /\ history' =
                    IF should_add
                    THEN Update(history,
                             [st \in {student} |->
                                 LastN(Append(timeline, [ts |-> now, url |-> url]), HistoryCap)])
                    ELSE Update(history, [st \in {student} |-> timeline])
             /\ screenshots' =
                    IF shots > 0
                    THEN Update(screenshots, [st \in {student} |-> LastN(hist, ScreenshotsCap)])
                    ELSE screenshots
             /\ response' = Beat(given, name, extension_enabled)
             /\ UNCHANGED <<store, now, History, inflight, extension_enabled, Settings, scenes>>

\* POST /api/extension/toggle, as a teacher
ApiExtensionToggle(enabled) ==
    /\ extension_enabled' = enabled
    /\ audit' = LogAction(audit)
    /\ Reply("extension_toggle", NoSid, NoStudent)
    /\ UNCHANGED <<sessions, active_sessions, pending_by_session, pending_per_student,
                   polls, exam_state, attention_check, now, History, inflight,
                   presence, history, screenshots, Settings, scenes>>

-----------------------------------------------------------------------------
(* Session scoping of /api/ requests (before_request / after_request) *)

\* _STUDENT_ID_KEYS, in the order the code tries them
StudentIdKeys == <<"student", "email", "id", "user", "student_id">>

\* JSON values: strings, numbers, arrays, and objects as their keys in order
\* with their values
JStr(text) == [kind |-> "str", text |-> text]
JNum == [kind |-> "num"]
JList(items) == [kind |-> "list", items |-> items]
JDict(keys, vals) == [kind |-> "dict", keys |-> keys, vals |-> vals]

HasKey(x, k) == \E i \in DOMAIN x.keys : x.keys[i] = k
Get(x, k) == x.vals[CHOOSE i \in DOMAIN x.keys : x.keys[i] = k]

\* the position in StudentIdKeys of the first key that x has with a string
\* value (`if k in x and isinstance(x[k], str)`), 0 if there is none
IdKeyOf(x) ==
    LET q == {n \in DOMAIN StudentIdKeys :
                 HasKey(x, StudentIdKeys[n]) /\ Get(x, StudentIdKeys[n]).kind = "str"}
    IN  IF q = {} THEN 0 ELSE CHOOSE n \in q : \A m \in q : n <= m
IdOf(x) == Get(x, StudentIdKeys[IdKeyOf(x)]).text

\* a filter that, with an empty roster, keeps everything
RECURSIVE FilterJsonFailOpen(_, _, _)
FilterJsonFailOpen(obj, roster, frames) ==
    IF obj.kind = "list"
    THEN LET survivors ==
                 SelectSeq(obj.items,
                     LAMBDA x : \/ x.kind # "dict"
                                \/ IdKeyOf(x) = 0
                                \/ roster = {}
                                \/ IdOf(x) \in roster)
         IN  IF survivors # <<>> /\ frames <= 1 THEN obj
             ELSE JList([i \in DOMAIN survivors |->
                            FilterJsonFailOpen(survivors[i], roster, frames - 1)])
    ELSE IF obj.kind = "dict"
    THEN IF obj.keys # <<>> /\ frames <= 1 THEN obj
         ELSE JDict(obj.keys,
                    [i \in DOMAIN obj.vals |->
                        FilterJsonFailOpen(obj.vals[i], roster, frames - 1)])
    ELSE obj

\* _filter_json_by_roster, entered with `frames` more calls allowed before
\* the interpreter raises RecursionError (frames >= 1).  An element of a
\* list that is an object with an identifier outside the roster is skipped;
\* every other element, and every value of an object, is walked by a
\* recursive call.  A call that cannot be made raises inside the caller's
\* try, and the caller's `except Exception: return obj` returns its own
\* argument as it was
RECURSIVE FilterJsonByRoster(_, _, _)
FilterJsonByRoster(obj, roster, frames) ==
    IF obj.kind = "list"
    THEN LET survivors ==
                 SelectSeq(obj.items,
                     LAMBDA x : \/ x.kind # "dict"
                                \/ IdKeyOf(x) = 0
                                \/ (roster # {} /\ IdOf(x) \in roster))
         IN  IF survivors # <<>> /\ frames <= 1 THEN obj
             ELSE JList([i \in DOMAIN survivors |->
                            FilterJsonByRoster(survivors[i], roster, frames - 1)])
    ELSE IF obj.kind = "dict"
    THEN IF obj.keys # <<>> /\ frames <= 1 THEN obj
         ELSE JDict(obj.keys,
                    [i \in DOMAIN obj.vals |->
                        FilterJsonByRoster(obj.vals[i], roster, frames - 1)])
    ELSE obj

\* str.strip() on the texts of the model
Strip(text) == IF text = " " THEN "" ELSE text

\* the first of the student keys of object d whose value is a string that
\* is not blank, stripped; "" for none
NamedIn(d) ==
    LET q == {n \in DOMAIN StudentIdKeys :
                 /\ HasKey(d, StudentIdKeys[n])
                 /\ Get(d, StudentIdKeys[n]).kind = "str"
                 /\ Strip(Get(d, StudentIdKeys[n]).text) # ""}
    IN  IF q = {} THEN ""
        ELSE Strip(Get(d, StudentIdKeys[CHOOSE n \in q : \A m \in q : n <= m]).text)

\* an extraction that looks at the top level of the body only
ExtractTopLevelOnly(body) ==
    IF body.kind # "dict" THEN "" ELSE NamedIn(body)

\* _extract_student_id_from_body ("" for None)
ExtractStudentIdFromBody(body) ==
    IF body.kind # "dict" THEN ""
    ELSE IF NamedIn(body) # "" THEN NamedIn(body)
    ELSE IF HasKey(body, "data") /\ Get(body, "data").kind = "dict"
    THEN NamedIn(Get(body, "data"))
    ELSE ""

\* g._session_id = request.args.get('session') or
\* request.headers.get('X-Session-ID'): the session id of a request that
\* carries sid in its query, in a header, in its body or not at all
ScopeOf(carrier, sid) == IF carrier \in {"query", "header"} THEN sid ELSE NoSid

\* g._session_students: the roster of the first session with the id, empty
\* for no scope and for an id that no session has
SessionStudents(ss, scope) ==
    IF scope # NoSid /\ scope \in SessionIdsOf(ss)
    THEN ss[FirstWithId(ss, scope)].students
    ELSE {}

ScopedRequest(carrier, sid, body, raw, frames) ==
    [carrier |-> carrier, sid |-> sid, body |-> body, raw |-> raw, frames |-> frames]

\* GET of an /api/ route whose handler replies the JSON `raw` and changes
\* nothing, through _session_scoping_after: with a session id the body is
\* parsed, filtered by the roster and replaced; when the filter cannot even
\* be entered the `except Exception: pass` leaves the reply as it was
ScopedGet(carrier, sid, raw, frames) ==
    LET scope == ScopeOf(carrier, sid)
        roster == SessionStudents(sessions, scope)
        sent == IF scope = NoSid \/ frames = 0 THEN raw
                ELSE FilterJsonByRoster(raw, roster, frames)
    IN  /\ response' =
               [Resp("scoped_get", "ok", sid, NoStudent, NoCommands, FALSE, active_sessions)
                   EXCEPT !.request = ScopedRequest(carrier, sid, JNull, raw, frames),
                          !.json = sent]
        /\ UNCHANGED <<store, now, History, inflight, Telemetry, Settings, scenes>>

\* POST /api/student/tabs_action with JSON `body`, through
\* _session_scoping_before: a request with a session id, for a session with
\* a roster, whose body names a student outside it is answered at once;
\* every other request reaches api_student_tabs_action, which raises (500)
\* on a body that is not an object or whose student is not a string
ScopedStudentTabsAction(carrier, sid, body) ==
    LET scope == ScopeOf(carrier, sid)
        roster == SessionStudents(sessions, scope)
        named == ExtractStudentIdFromBody(body)
        req == ScopedRequest(carrier, sid, body, JNull, 0)
        reply(status, st) ==
            response' =
                [Resp("tabs_action", status, sid, st, NoCommands, FALSE, active_sessions)
                    EXCEPT !.request = req]
        given(k) == IF HasKey(body, k) THEN Get(body, k) ELSE JStr("")
    IN  IF scope # NoSid /\ named # "" /\ roster # {} /\ named \notin roster
        THEN reply("ignored", named) /\ UNCHANGED <<store, now, History, inflight, Telemetry, Settings, scenes>>
        ELSE IF body.kind # "dict" \/ given("student").kind # "str"
                    \/ given("action").kind # "str"
        THEN reply("error", NoStudent) /\ UNCHANGED <<store, now, History, inflight, Telemetry, Settings, scenes>>
        ELSE LET student == Strip(given("student").text)
                 action == Strip(given("action").text)
             IN  IF student = "" \/ action \notin {"restore_tabs", "close_tabs"}
                 THEN /\ reply("student and valid action required", student)
                      /\ UNCHANGED <<store, now, History, inflight, Telemetry, Settings, scenes>>
                 ELSE /\ SentToStudent(student,
                             EnqueueStudentCmd(pending_per_student, student,
                                 Cmd(action, NoSid, now, "", nextUid)), TRUE)
                      /\ reply("ok", student)

\* a command as the JSON object the reply holds: a poll command carries
\* its poll's id, a string
CmdJson(c) ==
    IF c.id = ""
    THEN JDict(<<"type", "session_id", "ts">>, <<JStr(c.type), JStr(c.session_id), JNum>>)
    ELSE JDict(<<"type", "id", "session_id", "ts">>,
               <<JStr(c.type), JStr(c.id), JStr(c.session_id), JNum>>)

\* _session_scoping_after on the JSON reply `raw` of a request that carries
\* sid in `carrier`
SentThrough(raw, carrier, sid, ss, frames) ==
    IF ScopeOf(carrier, sid) = NoSid \/ frames = 0 THEN raw
    ELSE FilterJsonByRoster(raw, SessionStudents(ss, ScopeOf(carrier, sid)), frames)

\* GET /api/commands/<student> of a request that carries sid in `carrier`:
\* the queues are drained and the document saved by the handler, and the
\* reply {"commands": out} then goes through _session_scoping_after; what
\* the student receives is what is left of out
CommandsGetThrough(student, carrier, sid, frames) ==
    LET per_stu == pending_per_student[student]
        active_sids == StudentActiveSessions(sessions, active_sessions, now, student)
        from_sessions == SessionCommands(pending_by_session, active_sids)
        out == per_stu \o from_sessions
        raw == JDict(<<"commands">>, <<JList([i \in DOMAIN out |-> CmdJson(out[i])])>>)
        sent == SentThrough(raw, carrier, sid, sessions, frames)
        Delivered(q) == SelectSeq(q, LAMBDA c : CmdJson(c) \in SeqRange(sent.vals[1].items))
        got_stu == Delivered(per_stu)
        got == got_stu \o Delivered(from_sessions)
        pbs == [s \in DOMAIN pending_by_session |->
                   IF s \in SeqRange(active_sids)
                   THEN Remaining(pending_by_session[s], s)
                   ELSE pending_by_session[s]]
        again == \E i \in DOMAIN got : <<student, got[i].uid>> \in received
    IN  /\ pending_per_student' = DrainStudent(pending_per_student, student)
        /\ pending_by_session' = pbs
        /\ active_sessions' =
               ActiveSessionIds(sessions,
                   ReconcileActiveSessions(sessions, active_sessions, now), now)
        /\ received' = received \cup {<<student, got[i].uid>> : i \in DOMAIN got}
        /\ enqLog' = [s \in DOMAIN enqLog |->
                         IF s \in SeqRange(active_sids)
                         THEN Uids(pbs[s]) ELSE enqLog[s]]
        /\ response' = [Resp("commands_get", "ok", NoSid, student, got, again,
                             active_sessions)
                           EXCEPT !.own = Len(got_stu),
                                  !.request = IF carrier = "none" THEN NoScope
                                              ELSE ScopedRequest(carrier, sid, JNull, raw, frames)]
        /\ returned' = returned
               \cup {<<student, got[i].uid, IF i <= Len(got_stu) THEN "student" ELSE "session">> :
                        i \in DOMAIN got}
        /\ UNCHANGED <<sessions, polls, exam_state, attention_check, audit, now,
                       nextUid, sentTo, purged, inflight, Telemetry, Settings, scenes>>

\* GET /api/commands/<student>, with no session id in the query or a header
ApiCommandsGet(student) == CommandsGetThrough(student, "none", NoSid, 0)

-----------------------------------------------------------------------------
(* The document after ensure_keys(_safe_default_data()) *)

\* the document as loaded at start-up, with the session queues found in it
InitWith(queues) ==
    /\ sessions = <<>>
    /\ active_sessions = {}
    /\ pending_by_session = queues
    /\ pending_per_student = [st \in Students |-> <<>>]
    /\ polls = {}
    /\ exam_state = NoExamState
    /\ attention_check = NoAttentionCheck
    /\ audit = 0
    /\ now = 0
    /\ response = Resp("none", "ok", NoSid, NoStudent, NoCommands, FALSE, {})
    /\ nextUid = 1
    /\ sentTo = <<>>
    /\ received = {}
    /\ enqLog = [sid \in SessionIds |-> <<>>]
    /\ returned = {}
    /\ purged = [sid \in SessionIds |-> 1]
    /\ inflight = NoRequest
    /\ presence = <<>>
    /\ history = <<>>
    /\ screenshots = <<>>
    /\ extension_enabled = TRUE
    /\ classes = [focus_mode |-> FALSE, paused |-> FALSE, allowlist |-> <<>>,
                  teacher_blocks |-> <<>>]
    /\ student_overrides = <<>>
    /\ scenes = NoScenes

Init == InitWith([sid \in SessionIds |-> <<>>])

-----------------------------------------------------------------------------
(* Inputs *)

\* Thursday 00:01 to 00:02
WeeklyEntry == Weekly({3}, Clock(0, 1), Clock(0, 2))
\* 1970-01-01T00:01:00Z to 1970-01-01T00:11:00Z
OneoffEntry == Oneoff(Iso(0, 0, 1, 0, 0), Iso(0, 0, 11, 0, 0))
Schedules == {<<>>, <<WeeklyEntry>>, <<OneoffEntry>>}
Rosters == {{"alice"}, {"alice", "bob"}}
\* before both windows, inside both, the weekly window's last instant, one
\* minute past it, and past the one-off window
Instants == {0, 60, 120, 180, 760}
SendSids == SessionIds \cup {NoSid}
Targets == Students \cup {NoStudent}

-----------------------------------------------------------------------------
(* Spec: sessions started and ended by hand, commands sent and polled *)

\* "s2" is never created: to Spec it is an unknown session id
Bodies == {Session("s1", r, DefaultControls, <<>>, FALSE) : r \in Rosters}

Next ==
    \/ \E sess \in Bodies : ApiSessionsPost(sess)
    \/ \E sid \in SessionIds : ApiSessionStart(sid)
    \/ \E sid \in SessionIds : ApiSessionEnd(sid)
    \/ nextUid <= MaxSends /\ \E sid \in SendSids : ApiNotify(sid)
    \/ nextUid <= MaxSends /\ \E sid \in SendSids, type \in {"lock", ""}, target \in Targets,
              given \in SendSids :
           ApiCommand(sid, type, target, given)
    \/ \E st \in Students : ApiCommandsGet(st)

Spec == Init /\ [][Next]_vars

-----------------------------------------------------------------------------
(* SpecSched: session definitions, schedules, the clock and reconciliation *)

SchedBodies ==
    {Session("s1", {"alice"}, DefaultControls, sch, m) :
        sch \in Schedules, m \in BOOLEAN}
        \cup {Session("s2", {"bob"}, DefaultControls, sch, m) :
                sch \in {<<>>, <<WeeklyEntry>>}, m \in BOOLEAN}
SchedUpdates ==
    {[manual |-> m] : m \in BOOLEAN} \cup {[schedule |-> sch] : sch \in Schedules}
        \cup {[id |-> sid] : sid \in SessionIds}

NextSched ==
    \/ \E sess \in SchedBodies : ApiSessionsPost(sess)
    \/ \E sid \in SessionIds, body \in SchedUpdates : ApiSessionItemPut(sid, body)
    \/ \E sid \in SessionIds : ApiSessionItemDelete(sid)
    \/ \E sid \in SessionIds : ApiSessionStart(sid)
    \/ \E sid \in SessionIds : ApiSessionEnd(sid)
    \/ ApiSessionsActive
    \/ Tick(Instants)

SpecSched == Init /\ [][NextSched]_vars

-----------------------------------------------------------------------------
(* SpecSend: every sending handler, against a session that is unknown,     *)
(* never started, started, ended, inside or past its one-off window        *)

SendBodies == {Session("s1", {"alice"}, DefaultControls, <<OneoffEntry>>, FALSE)}

NextSend ==
    \/ \E sess \in SendBodies : ApiSessionsPost(sess)
    \/ ApiSessionStart("s1")
    \/ ApiSessionEnd("s1")
    \/ Tick({60, 760})
    \/ nextUid <= MaxKindSends /\ \E sid \in {"s1", NoSid}, type \in {"lock", ""}, target \in {"alice", NoStudent},
              given \in SendSids :
           ApiCommand(sid, type, target, given)
    \/ nextUid <= MaxKindSends /\ \E sid \in {"s1", NoSid}, type \in {"lock", ""}, given \in SendSids :
           ApiCommandsPost("alice", sid, type, given)
    \/ nextUid <= MaxKindSends /\ \E sid \in {"s1", NoSid} : ApiNotify(sid)
    \/ nextUid <= MaxKindSends /\ \E sid \in {"s1", NoSid}, wellformed \in BOOLEAN :
           ApiPoll(sid, wellformed)
    \/ nextUid <= MaxKindSends /\ \E sid \in {"s1", NoSid}, action \in {"start", "end", ""},
              url \in {"", "exam.example"} :
           ApiExam(sid, action, url)
    \/ nextUid <= MaxKindSends /\ \E sid \in {"s1", NoSid} : ApiAttentionCheck(sid)
    \/ nextUid <= MaxKindSends /\ \E st \in {"alice", NoStudent}, sid \in {"s1", NoSid}, hasUrls \in BOOLEAN :
           ApiOpenTabsAlias(st, sid, hasUrls)
    \/ nextUid <= MaxKindSends /\ \E st \in {"alice", NoStudent}, action \in {"close_tabs", ""} :
           ApiStudentTabsAction(st, action)
    \/ nextUid <= MaxKindSends /\ \E st \in {"alice", NoStudent}, sid \in {"s1", NoSid}, hasUrls \in BOOLEAN :
           ApiStudentOpenTabs(st, sid, hasUrls)

SpecSend == Init /\ [][NextSend]_vars

-----------------------------------------------------------------------------
(* SpecCap: one session, one student, more sends than the queues hold, and *)
(* no poll to drain them                                                   *)

CapBodies == {Session("s1", {"alice"}, DefaultControls, <<>>, FALSE)}

NextCap ==
    \/ \E sess \in CapBodies : ApiSessionsPost(sess)
    \/ ApiSessionStart("s1")
    \/ nextUid <= MaxCapSends /\ (\E given \in SendSids : ApiCommandsPost("alice", "s1", "lock", given))

SpecCap == Init /\ [][NextCap]_vars

-----------------------------------------------------------------------------
(* SpecPoll: session sends with a per-student copy, per-student sends and  *)
(* both polling endpoints                                                  *)

\* successful sends explored by SpecPoll
MaxPollSends == 2

PollBodies == {Session("s1", r, DefaultControls, <<>>, FALSE) : r \in Rosters}

NextPoll ==
    \/ \E sess \in PollBodies : ApiSessionsPost(sess)
    \/ ApiSessionStart("s1")
    \/ nextUid <= MaxPollSends /\ \E given \in SendSids :
           ApiCommand("s1", "lock", "alice", given)
    \/ nextUid <= MaxPollSends /\ ApiStudentTabsAction("alice", "close_tabs")
    \/ \E st \in Students : ApiCommandsGet(st)
    \/ ApiPolicy("alice")

SpecPoll == Init /\ [][NextPoll]_vars

-----------------------------------------------------------------------------
(* SpecLife: a session with a one-off window that is created, ended,       *)
(* deleted and created again while commands are sent to it and polled      *)

\* successful sends explored by SpecLife
MaxLifeSends == 2

LifeBodies == {Session("s1", r, DefaultControls, <<OneoffEntry>>, FALSE) : r \in Rosters}

NextLife ==
    \/ \E sess \in LifeBodies : ApiSessionsPost(sess)
    \/ ApiSessionStart("s1")
    \/ ApiSessionEnd("s1")
    \/ ApiSessionItemDelete("s1")
    \/ Tick({60, 760})
    \/ nextUid <= MaxLifeSends /\ ApiNotify("s1")
    \/ \E st \in Students : ApiCommandsGet(st)

SpecLife == Init /\ [][NextLife]_vars

-----------------------------------------------------------------------------
(* SpecRace: a poll whose load and save are separate steps, with sends     *)
(* handled in between                                                      *)

\* successful sends explored by SpecRace
MaxRaceSends == 2

RaceBodies == {Session("s1", r, DefaultControls, <<>>, FALSE) : r \in Rosters}

NextRace ==
    \/ \E sess \in RaceBodies : ApiSessionsPost(sess)
    \/ ApiSessionStart("s1")
    \/ nextUid <= MaxRaceSends /\ ApiNotify("s1")
    \/ \E st \in Students : ApiCommandsGetLoad(st)
    \/ ApiCommandsGetSave

SpecRace == Init /\ [][NextRace]_vars

-----------------------------------------------------------------------------
(* SpecPolicy: two sessions with different controls and rosters, started,  *)
(* ended, scheduled, and the effective policy asked for                    *)

FocusA == Controls(TRUE, {"a.com"}, FALSE, "")
ExamB == Controls(FALSE, {"b.com"}, TRUE, "exam.example")
OpenAB == Controls(FALSE, {"a.com", "b.com"}, FALSE, "")
\* an exam url kept in the controls of a session that is not in exam mode
UrlHeld == Controls(FALSE, {}, FALSE, "held.example")

PolicyBodies ==
    {Session("s1", {"alice"}, c, sch, FALSE) :
        c \in {FocusA, DefaultControls, UrlHeld}, sch \in {<<>>, <<OneoffEntry>>}}
        \cup {Session("s2", r, c, <<>>, FALSE) : r \in Rosters, c \in {ExamB, OpenAB}}

NextPolicy ==
    \/ \E sess \in PolicyBodies : ApiSessionsPost(sess)
    \/ \E sid \in SessionIds : ApiSessionStart(sid)
    \/ \E sid \in SessionIds : ApiSessionEnd(sid)
    \/ Tick({60, 760})
    \/ \E st \in Students : ApiStateForStudent(st)

SpecPolicy == Init /\ [][NextPolicy]_vars

-----------------------------------------------------------------------------
(* SpecEntry: one session whose schedule is one or two entries, well formed *)
(* or not, reconciled at instants around the ends of the windows           *)

\* Thursday 00:01 to 00:02 with a part missing, unparseable or out of range
WeeklyNoStart == Weekly({3}, NoClock, Clock(0, 2))
WeeklyNoEnd == Weekly({3}, Clock(0, 1), NoClock)
WeeklyBadStart == Weekly({3}, BadClock, Clock(0, 2))
WeeklyHour24 == Weekly({3}, Clock(0, 1), Clock(24, 0))
\* end before start
WeeklyBackwards == Weekly({3}, Clock(0, 2), Clock(0, 1))
\* Friday 00:01 to 00:02
WeeklyFriday == Weekly({4}, Clock(0, 1), Clock(0, 2))
\* 1970-01-01T01:01:00+01:00 to 1970-01-01T01:11:00+01:00, the window of
\* OneoffEntry written in another zone
OneoffOffset == Oneoff(Iso(0, 1, 1, 0, 60), Iso(0, 1, 11, 0, 60))
OneoffNoEnd == Oneoff(Iso(0, 0, 1, 0, 0), NoIso)
OneoffBadStart == Oneoff(BadIso, Iso(0, 0, 11, 0, 0))

EntrySchedules ==
    {<<e>> : e \in {WeeklyEntry, WeeklyNoStart, WeeklyNoEnd, WeeklyBadStart,
                    WeeklyHour24, WeeklyBackwards, WeeklyFriday, OneoffEntry,
                    OneoffOffset, OneoffNoEnd, OneoffBadStart}}
        \cup {<<WeeklyBadStart, OneoffEntry>>, <<OneoffBadStart, WeeklyEntry>>,
              <<WeeklyFriday, OneoffEntry>>}
EntryBodies ==
    {Session("s1", {"alice"}, DefaultControls, sch, FALSE) : sch \in EntrySchedules}
\* Thursday 00:00:00, 00:00:59, 00:01:00, 00:02:00, 00:02:01, 00:02:30,
\* 00:03:00, 00:11:00, 00:11:01 and Friday 00:01:00
EntryInstants == {0, 59, 60, 120, 121, 150, 180, 660, 661, 86460}

NextEntry ==
    \/ \E sess \in EntryBodies : ApiSessionsPost(sess)
    \/ ApiSessionsActive
    \/ Tick(EntryInstants)

SpecEntry == Init /\ [][NextEntry]_vars

-----------------------------------------------------------------------------
(* SpecScope: requests that carry a session id in the query, a header or   *)
(* the body, for a session with a roster, without one, or unknown          *)

\* successful sends explored by SpecScope
MaxScopeSends == 1
\* the most calls the interpreter still allows when the filter is entered
MaxFrames == 4

Record(key, st) == JDict(<<key, "url">>, <<JStr(st), JStr("x.example")>>)
Seen == JDict(<<"last_seen">>, <<JNum>>)
\* replies: a list of student records; a list under a key; the presence map,
\* keyed by student; one student record; a list of names; records whose id
\* is a number; a record with records nested in it
GetReplies ==
    {JList(<<Record("student", "alice"), Record("student", "bob")>>),
     JDict(<<"students">>, <<JList(<<Record("id", "bob"), Record("email", "alice")>>)>>),
     JDict(<<"alice", "bob">>, <<Seen, Seen>>),
     Record("student", "bob"),
     JList(<<JStr("alice"), JStr("bob")>>),
     JList(<<JDict(<<"id", "student_id">>, <<JNum, JStr("bob")>>),
             JDict(<<"id">>, <<JNum>>)>>),
     JList(<<JDict(<<"student", "tabs">>,
                   <<JStr("alice"), JList(<<Record("user", "bob")>>)>>)>>)}

Action == JStr("close_tabs")
\* bodies: naming alice; naming bob by each key, under data, beside a blank
\* or a number; naming nobody; not an object
PostBodies ==
    {JDict(<<"student", "action">>, <<JStr("alice"), Action>>),
     JDict(<<"student", "action">>, <<JStr("bob"), Action>>),
     JDict(<<"email", "action">>, <<JStr("bob"), Action>>),
     JDict(<<"student_id", "action">>, <<JStr("bob"), Action>>),
     JDict(<<"data", "action">>, <<JDict(<<"user">>, <<JStr("bob")>>), Action>>),
     JDict(<<"student", "data", "action">>,
           <<JStr(" "), JDict(<<"id">>, <<JStr("bob")>>), Action>>),
     JDict(<<"student", "id">>, <<JNum, JStr("bob")>>),
     JDict(<<"action">>, <<Action>>),
     JList(<<JStr("bob")>>)}

Carriers == {"query", "header", "body", "none"}
ScopeBodies == {Session("s1", r, DefaultControls, <<>>, FALSE) : r \in {{}, {"alice"}}}

NextScope ==
    \/ \E sess \in ScopeBodies : ApiSessionsPost(sess)
    \/ \E carrier \in Carriers, sid \in SessionIds, raw \in GetReplies, frames \in 0..MaxFrames :
           ScopedGet(carrier, sid, raw, frames)
    \/ nextUid <= MaxScopeSends /\ \E carrier \in Carriers, sid \in SessionIds, body \in PostBodies :
           ScopedStudentTabsAction(carrier, sid, body)

SpecScope == Init /\ [][NextScope]_vars

-----------------------------------------------------------------------------
(* SpecScene: class lists and flags, a student's override, scenes created, *)
(* retyped and applied, and the policy asked for                           *)

\* requests that write, explored by SpecScene
MaxSceneEdits == 4
\* scenes created
MaxScenes == 2

SceneInstants == {1}
SceneIds == {SceneId(t) : t \in {0} \cup SceneInstants}

NextScene ==
    \/ audit < MaxSceneEdits /\
         \/ \E body \in {[allowlist |-> <<"a.com">>], [teacher_blocks |-> <<"t.com">>]} :
                ApiClassSet(body)
         \/ \E key \in {"focus_mode", "other"}, val \in BOOLEAN : ApiClassToggle(key, val)
         \/ \E st \in {"alice", NoStudent} : ApiStudentSet(st, [focus_mode |-> FALSE])
         \/ /\ Len(scenes.allowed) + Len(scenes.blocked) < MaxScenes
            /\ \E type \in {"allowed", "blocked", "other"} :
                   ApiScenesCreate(type, <<"b.com">>, <<"x.com">>)
         \/ \E id \in SceneIds : ApiScenesUpdate(id, [type |-> "blocked"])
         \/ \E id \in SceneIds, disable \in BOOLEAN : ApiScenesApply(id, disable)
    \/ Tick(SceneInstants)
    \/ ApiPolicy("alice")

SpecScene == Init /\ [][NextScene]_vars

-----------------------------------------------------------------------------
(* SpecKeep: a session with a one-off window that is started, ended, left  *)
(* to expire and reconciled while commands wait in its queue               *)

\* successful sends explored by SpecKeep
MaxKeepSends == 2

NextKeep ==
    \/ \E sess \in LifeBodies : ApiSessionsPost(sess)
    \/ ApiSessionStart("s1")
    \/ ApiSessionEnd("s1")
    \/ ApiSessionsActive
    \/ Tick({60, 760})
    \/ nextUid <= MaxKeepSends /\ ApiNotify("s1")
    \/ \E st \in Students : ApiCommandsGet(st)

SpecKeep == Init /\ [][NextKeep]_vars

-----------------------------------------------------------------------------
(* SpecFound: the program starts on a data.json in which the queue of s1   *)
(* holds a command stamped with another session, or with none              *)

\* successful sends explored by SpecFound
MaxFoundSends == 2

\* commands not stamped "s1"; their uid 0 is the number of no send
Foreign == {Cmd("notify", sid, 0, "", 0) : sid \in {"s2", NoSid}}

InitFound ==
    \E c \in Foreign : InitWith([sid \in SessionIds |-> IF sid = "s1" THEN <<c>> ELSE <<>>])

FoundBodies == {Session(sid, r, DefaultControls, <<>>, FALSE) : sid \in SessionIds, r \in Rosters}

NextFound ==
    \/ \E sess \in FoundBodies : ApiSessionsPost(sess)
    \/ \E sid \in SessionIds : ApiSessionStart(sid)
    \/ nextUid <= MaxFoundSends /\ ApiNotify("s1")
    \/ \E st \in Students : ApiCommandsGet(st)

SpecFound == InitFound /\ [][NextFound]_vars

-----------------------------------------------------------------------------
(* SpecVia: polls that carry a session id, so that their reply goes        *)
(* through the roster filter                                               *)

\* successful sends explored by SpecVia
MaxViaSends == 2

NextVia ==
    \/ \E sess \in PollBodies : ApiSessionsPost(sess)
    \/ ApiSessionStart("s1")
    \/ nextUid <= MaxViaSends /\ ApiPoll("s1", TRUE)
    \/ nextUid <= MaxViaSends /\ ApiNotify("s1")
    \/ nextUid <= MaxViaSends /\ ApiCommand("s1", "lock", "alice", NoSid)
    \/ \E st \in Students, carrier \in {"query", "header", "none"}, sid \in SessionIds :
           CommandsGetThrough(st, carrier, sid, MaxFrames)

SpecVia == Init /\ [][NextVia]_vars

-----------------------------------------------------------------------------
(* SpecBeat: heartbeats of students and of guests, with the extension      *)
(* switched on and off                                                     *)

\* entries explored in a student's timeline and in a student's screenshots
MaxBeats == 2
\* switches of the extension explored
MaxToggles == 1

\* "", " ", "ali", "Guest1" and "temple"
BeatIds ==
    {<<>>, <<" ">>, <<"a", "l", "i">>, <<"G", "u", "e", "s", "t", "1">>,
     <<"t", "e", "m", "p", "l", "e">>}
\* "", "Ann" and "Trial A"
BeatNames == {<<>>, <<"A", "n", "n">>, <<"T", "r", "i", "a", "l", " ", "A">>}

NextBeat ==
    \/ /\ \A st \in DOMAIN history : Len(history[st]) < MaxBeats
       /\ \A st \in DOMAIN screenshots : Len(screenshots[st]) < MaxBeats
       /\ \E given \in BeatIds, name \in BeatNames, url \in {"", "a.com"}, shots \in 0..1 :
              ApiHeartbeat(given, name, url, shots)
    \/ audit < MaxToggles /\ \E enabled \in BOOLEAN : ApiExtensionToggle(enabled)
    \/ Tick({TimelineGap})

SpecBeat == Init /\ [][NextBeat]_vars

-----------------------------------------------------------------------------
(* Properties *)

Fresh == ReconcileActiveSessions(sessions, active_sessions, now)
Reconciled == response.op = "sessions_active"
Polled == response.op = "commands_get"
Enrolled(st, sid) == \E s \in SessionsWithId(sessions, sid) : st \in s.students

\* C1: right after a reconciliation a session is in the active set iff it
\* is schedule-active now or its manual flag is true, whatever the stored
\* active set was before
C1_ActiveIffScheduledOrManual ==
    Reconciled =>
        \A i \in DOMAIN sessions :
            sessions[i].id \in active_sessions
                <=> (SessionIsScheduledActive(sessions[i], now) \/ sessions[i].manual)

\* C2: a poll by a student returns every command that was sent to a session
\* which is active and enrols the student, unless an earlier poll already
\* returned it to that student, and returns none that an earlier poll
\* returned to that student
C2_DeliveredExactlyOnce ==
    Polled =>
        /\ ~response.again
        /\ \A u \in DOMAIN sentTo :
               (sentTo[u] \in active_sessions /\ Enrolled(response.student, sentTo[u]))
                   => <<response.student, u>> \in received

SessionSendOps ==
    {"command", "commands_post", "notify", "poll", "exam", "attention_check", "open_tabs"}
\* rejections that two handlers (poll, open_tabs) issue before they look at
\* the session
MalformedFirst == {"question and options required", "urls required"}

\* C3: a send changes a session queue only if the session is in the active
\* set reconciled at the time of the send; a well-formed send that names a
\* session outside that set is answered "session not active" and changes
\* nothing in the document
C3_SendOnlyToActive ==
    [][response'.op \in SessionSendOps =>
          /\ \A sid \in SessionIds :
                 pending_by_session'[sid] # pending_by_session[sid] => sid \in Fresh
          /\ (response'.sid \in SessionIds \ Fresh /\ response'.status \notin MalformedFirst)
                 => response'.status = "session not active"
          /\ response'.status = "session not active"
                 => response'.sid \notin Fresh /\ UNCHANGED store]_vars

\* a send was refused past the one-off window although the stored active set
\* still lists the session
C3_Witness ==
    /\ response.op \in SessionSendOps
    /\ response.status = "session not active"
    /\ response.sid = "s1"
    /\ now = 760
    /\ "s1" \in active_sessions
    /\ \E i \in DOMAIN sessions :
           sessions[i].schedule = <<OneoffEntry>> /\ ~sessions[i].manual

\* C4: right after a reconciliation a session with manual = false is active
\* exactly when one of its entries matches now; for the weekly entry
\* (Thursday 00:01-00:02) that is from 00:01:00 to 00:02:00 of the day
C4_ManualOffFollowsSchedule ==
    Reconciled =>
        \A i \in DOMAIN sessions :
            ~sessions[i].manual =>
                /\ sessions[i].id \in active_sessions
                       <=> SessionIsScheduledActive(sessions[i], now)
                /\ sessions[i].schedule = <<WeeklyEntry>> =>
                       (sessions[i].id \in active_sessions <=> (60 <= now /\ now <= 120))

\* one minute past the weekly window's end a reconciliation removed a
\* session that was active before it
C4_Witness ==
    /\ Reconciled
    /\ now = 180
    /\ \E i \in DOMAIN sessions :
           /\ sessions[i].schedule = <<WeeklyEntry>>
           /\ ~sessions[i].manual
           /\ sessions[i].id \in response.was
           /\ sessions[i].id \notin active_sessions

ManualUnscheduled(ss, sid, t) ==
    \E s \in SessionsWithId(ss, sid) : s.manual /\ ~SessionIsScheduledActive(s, t)

\* C5: an active session whose manual flag is true and whose schedule does
\* not match stays active over every step (reconciliations and elapsed time
\* included) that is not end(S) and leaves its manual flag true
C5_ManualStaysActive ==
    [][\A sid \in SessionIds :
          (/\ sid \in active_sessions
           /\ ManualUnscheduled(sessions, sid, now)
           /\ ~(response'.op = "session_end" /\ response'.sid = sid)
           /\ \E s \in SessionsWithId(sessions', sid) : s.manual)
              => sid \in active_sessions']_vars

\* long after its weekly window a manual session came through a
\* reconciliation still active
C5_Witness ==
    /\ Reconciled
    /\ now = 760
    /\ \E i \in DOMAIN sessions :
           /\ sessions[i].schedule = <<WeeklyEntry>>
           /\ sessions[i].manual
           /\ sessions[i].id \in response.was
           /\ sessions[i].id \in active_sessions

Started == response.op = "session_start" /\ response.status = "ok"

\* C6: start of an existing session leaves its manual flag true and its id
\* in the active set, and a send to it as the very next request is not
\* refused as inactive (a well-formed one is queued)
C6_StartActivatesAtOnce ==
    [][/\ (response'.op = "session_start" /\ response'.status = "ok") =>
              /\ response'.sid \in active_sessions'
              /\ \A s \in SessionsWithId(sessions', response'.sid) : s.manual
       /\ (Started /\ response'.op \in {"command", "notify"}
               /\ response'.sid = response.sid) =>
              /\ response'.status \in {"ok", "invalid"}
              /\ response'.status = "ok" =>
                     Len(pending_by_session'[response.sid])
                         = Len(pending_by_session[response.sid]) + 1]_vars

\* start has just put a session that was not active in the active set
C6_Witness ==
    /\ Started
    /\ response.sid \notin response.was
    /\ response.sid \in active_sessions
    /\ \E s \in SessionsWithId(sessions, response.sid) : s.manual

\* C7: end leaves the manual flag false and the id out of the active set;
\* a reconciliation as the very next request puts the session back exactly
\* when its schedule matches at that instant
C7_EndThenReconcile ==
    [][/\ response'.op = "session_end" =>
              /\ response'.sid \notin active_sessions'
              /\ \A s \in SessionsWithId(sessions', response'.sid) : ~s.manual
       /\ (response.op = "session_end" /\ response'.op = "sessions_active") =>
              \A s \in SessionsWithId(sessions, response.sid) :
                  s.id \in active_sessions' <=> SessionIsScheduledActive(s, now)]_vars

\* end has just removed a session whose schedule matches now
C7_Witness ==
    /\ response.op = "session_end"
    /\ response.sid \in response.was
    /\ response.sid \notin active_sessions
    /\ \E s \in SessionsWithId(sessions, response.sid) :
           SessionIsScheduledActive(s, now) /\ ~s.manual

\* C8: each session queue holds at most 200 commands, and they are the last
\* ones enqueued since the queue was drained, in the order of enqueueing
C8_SessionQueueKeepsNewest ==
    \A sid \in SessionIds :
        LET q == pending_by_session[sid]
            log == enqLog[sid]
        IN  /\ Len(q) <= 200
            /\ Len(q) = (IF Len(log) < 200 THEN Len(log) ELSE 200)
            /\ \A i \in DOMAIN q : q[i].uid = log[Len(log) - Len(q) + i]

\* after 205 enqueues the queue holds sends 6 to 205
C8_Witness ==
    /\ Len(enqLog["s1"]) = 205
    /\ Len(pending_by_session["s1"]) = 200
    /\ pending_by_session["s1"][1].uid = 6
    /\ pending_by_session["s1"][200].uid = 205

\* C9: a per-student queue never holds more than 50 commands
C9_StudentQueueCapped ==
    \A st \in Students : Len(pending_per_student[st]) <= 50

\* C10: no poll returns two copies of the command of one send
C10_NoDoubleDelivery ==
    Polled =>
        \A i, j \in DOMAIN response.commands :
            i # j => response.commands[i].uid # response.commands[j].uid

DrainOps == {"commands_get", "policy"}
InSessionQueue(u) ==
    \E i \in DOMAIN pending_by_session[sentTo[u]] :
        pending_by_session[sentTo[u]][i].uid = u
ReturnedFromSession(u) == \E st \in Students : <<st, u, "session">> \in returned
\* 200 or more later sends to the same session have pushed send u out
Evicted(u) ==
    Cardinality({v \in DOMAIN sentTo : v > u /\ sentTo[v] = sentTo[u]}) >= 200

\* C11: a command that a send enqueued while a poll was between its read
\* and its write of the store is not lost: it is still in the session queue
\* until some poll returns it (or 200 later sends push it out)
C11_ConcurrentSendSurvives ==
    \A u \in DOMAIN sentTo :
        sentTo[u] \in SessionIds =>
            InSessionQueue(u) \/ ReturnedFromSession(u) \/ Evicted(u)

\* C12: a poll (GET /api/commands/<student> or POST /api/policy) returns the
\* student's whole per-student queue, in order, and leaves it empty; a poll
\* by the same student as the very next request returns an empty
\* per-student part
C12_StudentDrainIsTotal ==
    [][(response'.op \in DrainOps /\ response'.student \in Students) =>
          LET st == response'.student
          IN  /\ response'.own = Len(pending_per_student[st])
              /\ SubSeq(response'.commands, 1, response'.own) = pending_per_student[st]
              /\ pending_per_student'[st] = <<>>
              /\ (response.op \in DrainOps /\ response.student = st)
                     => response'.own = 0]_vars

\* a poll found the student's queue empty after an earlier poll had
\* returned a command from it
C12_Witness ==
    /\ response.op \in DrainOps
    /\ response.student = "alice"
    /\ response.own = 0
    /\ pending_per_student["alice"] = <<>>
    /\ \E u \in DOMAIN sentTo : <<"alice", u, "student">> \in returned

\* the queue entries (send, queue kind) that polls have returned
Instances(ret) == {<<r[2], r[3]>> : r \in ret}

\* C13: with atomic requests, every queue entry a poll returns is one that
\* no poll returned before, and no entry that a poll has returned is still
\* in a session queue or a per-student queue
C13_AtMostOnce ==
    [][/\ response'.op \in DrainOps =>
              Cardinality(Instances(returned') \ Instances(returned))
                  = Len(response'.commands)
       /\ \A st \in Students : \A i \in DOMAIN pending_per_student'[st] :
              <<pending_per_student'[st][i].uid, "student">> \notin Instances(returned')
       /\ \A sid \in SessionIds : \A i \in DOMAIN pending_by_session'[sid] :
              <<pending_by_session'[sid][i].uid, "session">> \notin Instances(returned')]_vars

\* bob, enrolled in the active session, polled and got nothing: alice's
\* poll had already returned the session's command
C13_Witness ==
    /\ Polled
    /\ response.student = "bob"
    /\ response.commands = <<>>
    /\ Enrolled("bob", "s1")
    /\ "s1" \in active_sessions
    /\ \E u \in DOMAIN sentTo : sentTo[u] = "s1" /\ <<"alice", u, "session">> \in returned

InOneoffWindow(sess, t) ==
    \E i \in DOMAIN sess.schedule :
        sess.schedule[i].type = "oneoff" /\ OneoffMatch(sess.schedule[i], t)

\* C14: while the one-off window of a session contains now, a poll by an
\* enrolled student leaves the session in the active set, and every command
\* that was sent to the session has by then been returned from the session
\* queue to this student or to another one who polled first (or 200 later
\* sends pushed it out)
C14_OneoffDelivers ==
    Polled =>
        \A s \in SeqRange(sessions) :
            (InOneoffWindow(s, now) /\ response.student \in s.students) =>
                /\ s.id \in active_sessions
                /\ \A u \in DOMAIN sentTo :
                       sentTo[u] = s.id => ReturnedFromSession(u) \/ Evicted(u)

\* inside the window, with the session never started by hand, alice's poll
\* returned a command of the session
C14_Witness ==
    /\ Polled
    /\ response.student = "alice"
    /\ now = 60
    /\ \E s \in SeqRange(sessions) :
           s.id = "s1" /\ ~s.manual /\ InOneoffWindow(s, now) /\ "alice" \in s.students
    /\ \E i \in DOMAIN response.commands :
           /\ i > response.own
           /\ response.commands[i].session_id = "s1"
           /\ response.commands[i].ts = 60

\* C15: no poll returns from a session queue a command that was sent before
\* the session of that id was last deleted
C15_DeleteDiscardsQueue ==
    Polled =>
        \A i \in DOMAIN response.commands :
            i > response.own =>
                response.commands[i].uid >= purged[response.commands[i].session_id]

\* C16: a send that names a session id which no session has is not answered
\* with the "session not active" error of an existing, inactive session
C16_NotFoundDistinct ==
    (/\ response.op \in SessionSendOps
     /\ response.sid \in SessionIds
     /\ response.sid \notin SessionIdsOf(sessions)
     /\ response.status \notin MalformedFirst)
        => response.status # "session not active"

\* C17: a session send (one that names no student to queue for instead)
\* without a session id is answered "session required", whatever else is
\* wrong with it, and changes nothing in the document
C17_SessionRequiredFirst ==
    [][(/\ response'.op \in SessionSendOps
        /\ ~(response'.op = "open_tabs" /\ response'.student # NoStudent)
        /\ response'.sid = NoSid)
           => response'.status = "session required" /\ UNCHANGED store]_vars

\* C18: every command in the queue of session S is stamped S
C18_StampMatchesQueue ==
    \A sid \in SessionIds : \A i \in DOMAIN pending_by_session[sid] :
        pending_by_session[sid][i].session_id = sid

\* POST /api/command has just queued a command for s1
C18_Witness ==
    /\ response.op = "command"
    /\ response.status = "ok"
    /\ response.sid = "s1"
    /\ Len(pending_by_session["s1"]) = 1
    /\ pending_by_session["s1"][1].session_id = "s1"

Composed == response.op = "state"
\* the positions in data["sessions"] of the sessions that enrol the student
\* and are in the active set reconciled now
Selected(st) ==
    {i \in DOMAIN sessions : st \in sessions[i].students /\ sessions[i].id \in Fresh}

\* C19: the session ids of the effective policy are the ids of the sessions
\* that enrol the student and are in the active set reconciled now, each
\* once; with no such session the policy is focusMode false, examMode
\* false, allowlist empty, examUrl empty
C19_ComposeSelectsActiveEnrolled ==
    Composed =>
        LET sel == Selected(response.student)
            st == response.state
        IN  /\ SeqRange(st.session_ids) = {sessions[i].id : i \in sel}
            /\ Len(st.session_ids) = Cardinality(sel)
            /\ sel = {} =>
                   /\ ~st.focusMode /\ ~st.examMode
                   /\ st.allowlist = <<>> /\ st.examUrl = ""

\* inside its window a session that the stored active set does not list
\* contributes to alice's policy, and bob, enrolled nowhere active, gets the
\* defaults
C19_Witness ==
    /\ Composed
    /\ response.student = "alice"
    /\ now = 60
    /\ "s1" \notin active_sessions
    /\ "s1" \in SeqRange(response.state.session_ids)
    /\ Selected("bob") = {}

\* C20: focusMode of the effective policy is true iff some selected session
\* has controls.focusMode true, and its allowlist holds exactly the entries
\* of the selected sessions' allowlists, each once
C20_FocusAnyAllowlistUnion ==
    Composed =>
        LET sel == Selected(response.student)
            st == response.state
            union == UNION {sessions[i].controls.allowlist : i \in sel}
        IN  /\ st.focusMode <=> \E i \in sel : sessions[i].controls.focusMode
            /\ SeqRange(st.allowlist) = union
            /\ Len(st.allowlist) = Cardinality(union)

\* sessions {focus, a.com} and {no focus, b.com} are both selected: the
\* policy is focusMode true with allowlist a.com, b.com
C20_Witness ==
    /\ Composed
    /\ \E i, j \in Selected(response.student) :
           /\ sessions[i].controls = FocusA
           /\ sessions[j].controls = ExamB
    /\ response.state.focusMode
    /\ response.state.allowlist = <<"a.com", "b.com">>

\* the examUrl of the first selected session, in the order of
\* data["sessions"], whose controls hold a non-empty one
FirstHeldUrl(st) ==
    LET holders == {i \in Selected(st) : sessions[i].controls.examUrl # ""}
    IN  IF holders = {} THEN ""
        ELSE sessions[CHOOSE i \in holders : \A j \in holders : i <= j].controls.examUrl

\* C21: examMode of the effective policy is true iff some selected session
\* has controls.examMode true, and examUrl is the first non-empty examUrl
\* among the selected sessions, whether or not its session is in exam mode
C21_ExamAnyUrlFirst ==
    Composed =>
        /\ response.state.examMode
               <=> \E i \in Selected(response.student) : sessions[i].controls.examMode
        /\ response.state.examUrl = FirstHeldUrl(response.student)

\* a weekly entry with a clock text missing, unparseable or out of range, a
\* one-off entry with an instant missing or unparseable
Malformed(ent) ==
    \/ /\ ent.type = "weekly"
       /\ \E c \in {ent.start, ent.end} :
              \/ ~c.given \/ ~c.numeric \/ Len(c.parts) # 2
              \/ c.parts[1] \notin 0..23 \/ c.parts[2] \notin 0..59
    \/ /\ ent.type = "oneoff"
       /\ \E i \in {ent.startISO, ent.endISO} : ~i.given \/ ~i.wellformed

EntryMatches(ent, t) ==
    \/ ent.type = "weekly" /\ WeeklyMatch(ent, t)
    \/ ent.type = "oneoff" /\ OneoffMatch(ent, t)

\* C27: a reconciliation makes a session with manual = false active iff one
\* of its well-formed entries matches now: a malformed entry counts as no
\* match and does not stop the other entries from being evaluated
C27_MalformedNeverMatches ==
    Reconciled =>
        \A s \in SeqRange(sessions) :
            ~s.manual =>
                (s.id \in active_sessions
                    <=> \E i \in DOMAIN s.schedule :
                            ~Malformed(s.schedule[i]) /\ EntryMatches(s.schedule[i], now))

MinuteOfDay(t) == SecondOfDay(t) \div 60
ClockMinute(c) == c.parts[1] * 60 + c.parts[2]

\* C28: a reconciliation makes a session with manual = false and one
\* well-formed weekly entry active iff now's weekday is one of the entry's
\* days and the minute of the day of now is from the start minute to the
\* end minute, both included
C28_WeeklyInclusiveMinutes ==
    Reconciled =>
        \A s \in SeqRange(sessions) :
            (~s.manual /\ Len(s.schedule) = 1 /\ s.schedule[1].type = "weekly"
                 /\ ~Malformed(s.schedule[1])) =>
                (s.id \in active_sessions
                    <=> /\ Weekday(now) \in s.schedule[1].days
                        /\ ClockMinute(s.schedule[1].start) <= MinuteOfDay(now)
                        /\ MinuteOfDay(now) <= ClockMinute(s.schedule[1].end))

\* C29: a reconciliation makes a session with manual = false active iff at
\* least one of its entries matches now; for the one-off window from
\* 00:01:00 to 00:11:00 UTC, in whatever zone it is written, that is from
\* second 60 to second 660, both included
C29_OneoffInclusive ==
    Reconciled =>
        \A s \in SeqRange(sessions) :
            ~s.manual =>
                /\ s.id \in active_sessions
                       <=> \E i \in DOMAIN s.schedule : EntryMatches(s.schedule[i], now)
                /\ s.schedule \in {<<OneoffEntry>>, <<OneoffOffset>>} =>
                       (s.id \in active_sessions <=> (60 <= now /\ now <= 660))

\* at the end instant of its one-off window a session that was not in the
\* stored active set was made active, its first entry being another day's
C29_Witness ==
    /\ Reconciled
    /\ now = 660
    /\ "s1" \notin response.was
    /\ "s1" \in active_sessions
    /\ \E s \in SeqRange(sessions) : s.schedule = <<WeeklyFriday, OneoffEntry>>

\* C30: no two sessions of the store have the same id, and a create leaves
\* exactly one session with the id it named, equal to the definition the
\* reply carries
C30_UniqueIds ==
    [][/\ \A i, j \in DOMAIN sessions' : i # j => sessions'[i].id # sessions'[j].id
       /\ response'.op = "sessions_post" =>
              /\ Cardinality({i \in DOMAIN sessions' : sessions'[i].id = response'.sid}) = 1
              /\ \A i \in DOMAIN sessions' :
                     sessions'[i].id = response'.sid => sessions'[i] = response'.json]_vars

\* a create replaced a session that had been started by hand: its id is
\* still in the stored active set, and the one session of that id is the new
\* definition, with manual off, beside another session
C30_Witness ==
    /\ response.op = "sessions_post"
    /\ response.sid \in active_sessions
    /\ Len(sessions) = 2
    /\ ~response.json.manual
    /\ response.json.schedule = <<>>
    /\ now = 0

\* the reply of the last request went through the roster filter of a session
Scoped == response.op = "scoped_get" /\ response.request.carrier \in {"query", "header"}
ScopeRoster == SessionStudents(sessions, response.request.sid)

\* the calls a walk of the whole of v makes, one inside the other
RECURSIVE FramesNeeded(_)
FramesNeeded(v) ==
    LET Max(S) == IF S = {} THEN 0 ELSE CHOOSE n \in S : \A m \in S : m <= n
    IN  IF v.kind = "list"
        THEN 1 + Max({FramesNeeded(v.items[i]) : i \in DOMAIN v.items})
        ELSE IF v.kind = "dict"
        THEN 1 + Max({FramesNeeded(v.vals[i]) : i \in DOMAIN v.vals})
        ELSE 1

Identified(x) == x.kind = "dict" /\ IdKeyOf(x) # 0

\* every object with a student identifier that is an element of a list,
\* anywhere in v, has its identifier in the roster
RECURSIVE ListsClean(_, _)
ListsClean(v, roster) ==
    IF v.kind = "list"
    THEN \A i \in DOMAIN v.items :
            /\ Identified(v.items[i]) => IdOf(v.items[i]) \in roster
            /\ ListsClean(v.items[i], roster)
    ELSE IF v.kind = "dict"
    THEN \A i \in DOMAIN v.vals : ListsClean(v.vals[i], roster)
    ELSE TRUE

\* C22: in the reply to a request scoped to a session, when the filter ran
\* to its end, every object of a list that carries a student identifier has
\* it in the session's roster, an object whose identifier is in the roster
\* is kept (a list of such objects is cut down to those of the roster, in
\* order), and for an unknown session or an empty roster no such object is
\* left
C22_ListsFilteredByRoster ==
    (Scoped /\ response.request.frames >= FramesNeeded(response.request.raw)) =>
        LET raw == response.request.raw
            sent == response.json
        IN  /\ ListsClean(sent, ScopeRoster)
            /\ ScopeRoster = {} => ListsClean(sent, {})
            /\ raw.kind = "list" =>
                  /\ sent.kind = "list"
                  /\ Len(sent.items) =
                         Cardinality({i \in DOMAIN raw.items :
                             Identified(raw.items[i]) => IdOf(raw.items[i]) \in ScopeRoster})
                  /\ \A i \in DOMAIN raw.items :
                         (Identified(raw.items[i]) /\ IdOf(raw.items[i]) \in ScopeRoster) =>
                             \E j \in DOMAIN sent.items :
                                 Identified(sent.items[j])
                                     /\ IdOf(sent.items[j]) = IdOf(raw.items[i])

\* a list of records of alice and bob came back as the record of alice
C22_Witness ==
    /\ Scoped
    /\ ScopeRoster = {"alice"}
    /\ response.request.raw = JList(<<Record("student", "alice"), Record("student", "bob")>>)
    /\ response.request.frames >= 3
    /\ Len(response.json.items) = 1
    /\ IdOf(response.json.items[1]) = "alice"

\* the students a JSON value tells of: as a key of an object, or as the
\* value of a student key
RECURSIVE Mentions(_)
Mentions(v) ==
    IF v.kind = "list"
    THEN UNION {Mentions(v.items[i]) : i \in DOMAIN v.items}
    ELSE IF v.kind = "dict"
    THEN UNION {(IF v.keys[i] \in Students THEN {v.keys[i]} ELSE {})
                  \cup (IF v.vals[i].kind = "str"
                            /\ \E n \in DOMAIN StudentIdKeys : StudentIdKeys[n] = v.keys[i]
                        THEN {v.vals[i].text} \cap Students ELSE {})
                  \cup Mentions(v.vals[i]) : i \in DOMAIN v.keys}
    ELSE {}

\* C23: the reply to a request scoped to a session tells of no student
\* outside the session's roster, whatever its shape
C23_NothingOutsideRoster ==
    (Scoped /\ response.request.frames >= FramesNeeded(response.request.raw)) =>
        Mentions(response.json) \subseteq ScopeRoster

\* the students a body names under a student key, at the top or under data
NamedAt(d) ==
    IF d.kind # "dict" THEN {}
    ELSE {Strip(d.vals[i].text) : i \in {j \in DOMAIN d.keys :
             /\ \E n \in DOMAIN StudentIdKeys : StudentIdKeys[n] = d.keys[j]
             /\ d.vals[j].kind = "str"
             /\ Strip(d.vals[j].text) # ""}}
NamedStudents(body) ==
    NamedAt(body) \cup
        (IF body.kind = "dict" /\ HasKey(body, "data") THEN NamedAt(Get(body, "data")) ELSE {})

\* the last request was a POST, carrying a session id in one of `carriers`,
\* for a session with a roster, whose body names one student, who is not on it
NamesOutsider(resp, ss, carriers) ==
    /\ resp.op = "tabs_action"
    /\ resp.request.carrier \in carriers
    /\ SessionStudents(ss, resp.request.sid) # {}
    /\ Cardinality(NamedStudents(resp.request.body)) = 1
    /\ NamedStudents(resp.request.body) \cap SessionStudents(ss, resp.request.sid) = {}

\* C24: a POST scoped to a session with a roster, by the query or a header,
\* whose body names a single student who is not on the roster is answered
\* "ignored" and changes nothing in the store
C24_OutsiderWriteIgnored ==
    [][NamesOutsider(response', sessions, {"query", "header"}) =>
           response'.status = "ignored" /\ UNCHANGED store]_vars

\* a write naming bob under data, scoped to alice's session, was ignored
C24_Witness ==
    /\ NamesOutsider(response, sessions, {"query", "header"})
    /\ HasKey(response.request.body, "data")
    /\ response.status = "ignored"
    /\ response.student = "bob"

\* C25: a request that carries the session id only in its body is scoped
\* like one that carries it in the query or a header: its write naming a
\* student outside the roster is ignored, and the lists of its reply are cut
\* down to the roster
C25_BodyCarriedScoped ==
    [][/\ NamesOutsider(response', sessions, {"body"}) =>
              response'.status = "ignored" /\ UNCHANGED store
       /\ (response'.op = "scoped_get" /\ response'.request.carrier = "body"
               /\ response'.request.frames >= FramesNeeded(response'.request.raw)) =>
              ListsClean(response'.json, SessionStudents(sessions, response'.request.sid))]_vars

\* C26: whether or not the filter ran to its end, the reply to a scoped
\* request is empty or has its lists cut down to the roster: it is never
\* the reply as the handler made it
C26_NeverUnfiltered ==
    Scoped =>
        \/ response.json \in {JNull, JList(<<>>), JDict(<<>>, <<>>)}
        \/ ListsClean(response.json, ScopeRoster)

\* the scene that is current: the scene of the store with the current id
CurrentScene ==
    IF scenes.current.set THEN FindScene(scenes, scenes.current.id) ELSE [found |-> FALSE]
\* focus mode before any scene: the student's override, else the class's flag
BaseFocus(st) ==
    IF st \in DOMAIN student_overrides /\ "focus_mode" \in DOMAIN student_overrides[st]
    THEN student_overrides[st].focus_mode
    ELSE classes.focus_mode

\* C31: in the policy given to a student, a current scene of allow-type
\* makes the allowlist the scene's allow list and focus mode true; a current
\* scene of block-type makes the block list the class's followed by the
\* scene's block patterns, and leaves focus mode and the allowlist as they
\* are without a scene
C31_SceneMerge ==
    (response.op = "policy" /\ CurrentScene.found) =>
        LET scene == CurrentScene.scene
            given == response.json
        IN  /\ scene.type = "allowed" =>
                  given.allowlist = scene.allow /\ given.focus_mode = TRUE
            /\ scene.type = "blocked" =>
                  /\ given.teacher_blocks = classes.teacher_blocks \o scene.block
                  /\ given.focus_mode = BaseFocus(response.student)
                  /\ given.allowlist = classes.allowlist

\* an allow-type scene replaced a class allowlist that was not empty, for a
\* student whose override turns focus mode off
C31_Witness ==
    /\ response.op = "policy"
    /\ CurrentScene.found
    /\ CurrentScene.scene.type = "allowed"
    /\ classes.allowlist = <<"a.com">>
    /\ BaseFocus(response.student) = FALSE
    /\ response.json.allowlist = <<"b.com">>
    /\ response.json.focus_mode = TRUE

\* C32: reconciling the outcome of a reconciliation at the same instant
\* gives that outcome again, and a request that only reconciles leaves the
\* active set reconciled and the sessions (definitions, rosters, manual
\* flags) and every command queue as they were
C32_ReconcileIdempotentFrame ==
    [][/\ ReconcileActiveSessions(sessions',
              ReconcileActiveSessions(sessions', active_sessions', now'), now')
          = ReconcileActiveSessions(sessions', active_sessions', now')
       /\ response'.op = "sessions_active" =>
              /\ ReconcileActiveSessions(sessions', active_sessions', now') = active_sessions'
              /\ UNCHANGED <<sessions, pending_by_session, pending_per_student>>]_vars

\* a reconciliation dropped the expired session while a command was waiting
\* in its queue
C32_Witness ==
    /\ Reconciled
    /\ "s1" \in response.was
    /\ "s1" \notin active_sessions
    /\ pending_by_session["s1"] # <<>>

\* send u was acknowledged, and its command is in no queue, was returned to
\* no poller and was not pushed out by 200 later sends
Lost(u) ==
    /\ u \in DOMAIN sentTo
    /\ sentTo[u] \in SessionIds
    /\ ~InSessionQueue(u)
    /\ ~ReturnedFromSession(u)
    /\ ~Evicted(u)

\* C33: the save of a request that loaded the document earlier writes the
\* whole document as it was loaded: the sessions are those loaded and every
\* session queue holds only commands that were loaded, whatever other
\* requests saved in between; so an acknowledged command can be lost
C33_LastWriteWins ==
    [][(inflight.student # NoStudent /\ inflight'.student = NoStudent) =>
           /\ sessions' = inflight.d.sessions
           /\ \A sid \in SessionIds :
                  SeqRange(pending_by_session'[sid])
                      \subseteq SeqRange(inflight.d.pending_by_session[sid])]_vars

\* a command sent to s1 between a poll's load and its save is gone and was
\* delivered to nobody
C33_Witness ==
    /\ response.op = "commands_get"
    /\ inflight.student = NoStudent
    /\ \E u \in DOMAIN sentTo : Lost(u)

\* C34: while no session is deleted, a command leaves a session queue only
\* in the reply of a poll or when the queue, full, takes another command
\* (the passing of time, a reconciliation, the end of a window and end()
\* remove nothing); and a poll by a student enrolled in a session that is
\* active leaves in its queue no command stamped with the session, however
\* long ago and in whichever spell of activity it was queued
C34_QueuedUntilPolled ==
    [][/\ \A sid \in SessionIds :
              \A i \in DOMAIN pending_by_session[sid] :
                  pending_by_session[sid][i] \notin SeqRange(pending_by_session'[sid]) =>
                      \/ /\ response'.op = "commands_get"
                         /\ pending_by_session[sid][i] \in SeqRange(response'.commands)
                      \/ /\ Len(pending_by_session[sid]) = SessionQueueCap
                         /\ Len(pending_by_session'[sid]) = SessionQueueCap
       /\ response'.op = "commands_get" =>
              \A s \in SeqRange(sessions') :
                  (s.id \in active_sessions' /\ response'.student \in s.students) =>
                      \A i \in DOMAIN pending_by_session'[s.id] :
                          pending_by_session'[s.id][i].session_id # s.id]_vars

\* inside the window, alice's poll returned from the queue of s1 a command
\* sent before the window, when the session had been started by hand, and
\* the session has since been ended
C34_Witness ==
    /\ Polled
    /\ now = 60
    /\ \E s \in SeqRange(sessions) : s.id = "s1" /\ ~s.manual /\ response.student \in s.students
    /\ \E i \in DOMAIN response.commands :
           /\ i > response.own
           /\ response.commands[i].session_id = "s1"
           /\ response.commands[i].ts = 0

C36_OnlyEnrolledActive ==
    Polled =>
        \A i \in DOMAIN response.commands :
            response.commands[i].session_id \in SessionIds =>
                /\ Enrolled(response.student, response.commands[i].session_id)
                /\ response.commands[i].session_id \in Fresh

\* C37: every command that a poll takes out of a session queue or out of
\* the student's own queue is in the reply the student receives, also when
\* the request carries a session id
C37_ConsumedIsDelivered ==
    [][response'.op = "commands_get" =>
           /\ \A sid \in SessionIds :
                  \A i \in DOMAIN pending_by_session[sid] :
                      pending_by_session[sid][i] \notin SeqRange(pending_by_session'[sid]) =>
                          pending_by_session[sid][i] \in SeqRange(response'.commands)
           /\ \A i \in DOMAIN pending_per_student[response'.student] :
                  pending_per_student[response'.student][i]
                          \notin SeqRange(pending_per_student'[response'.student]) =>
                      pending_per_student[response'.student][i] \in SeqRange(response'.commands)]_vars

\* C38: with requests handled one at a time, every id in the active set is
\* the id of a session in the store; a start of an unknown id is answered
\* not found and changes nothing, a reconciliation adds only ids of sessions
\* in the store, and a delete takes the id out of the active set
C38_ActiveIdsExist ==
    [][/\ active_sessions' \subseteq SessionIdsOf(sessions')
       /\ (response'.op = "session_start" /\ response'.sid \notin SessionIdsOf(sessions)) =>
              response'.status = "not found" /\ UNCHANGED store
       /\ response'.op = "sessions_active" =>
              active_sessions' \ active_sessions \subseteq SessionIdsOf(sessions)
       /\ response'.op = "session_delete" => response'.sid \notin active_sessions']_vars

\* the session that was deleted was active, and another one still is
C38_Witness ==
    /\ response.op = "session_delete"
    /\ response.sid \in response.was
    /\ response.sid \notin SessionIdsOf(sessions)
    /\ active_sessions # {}

\* C39: in the reply of a poll, the commands that came from the student's
\* own queue are in the order in which they were sent, and so are the
\* commands that came from the queue of any one session
C39_FifoDelivery ==
    Polled =>
        \A i, j \in DOMAIN response.commands :
            (i < j /\ ((j <= response.own)
                       \/ (i > response.own
                           /\ response.commands[i].session_id = response.commands[j].session_id))) =>
                /\ response.commands[i].uid < response.commands[j].uid
                /\ response.commands[i].ts <= response.commands[j].ts

\* one poll returned two commands of the student's own queue followed by two
\* commands of the queue of s1
C39_Witness ==
    /\ Polled
    /\ response.own = 2
    /\ Len(response.commands) = 4
    /\ response.commands[3].session_id = "s1"
    /\ response.commands[4].session_id = "s1"
    /\ response.commands[1].uid # response.commands[2].uid

\* a guest as the claim has it: no student id, or one of the words in the
\* student id or in the display name as they were sent
GuestAsSent(student, name) ==
    \/ student = <<>>
    \/ \E t \in GuestTokens : Contains(Lower(student), t) \/ Contains(Lower(name), t)

\* C40: a heartbeat of a guest leaves presence, the timelines, the
\* screenshots and the rest of the store as they were, and its reply has
\* extension_enabled false
C40_GuestRecordsNothing ==
    [][(response'.op = "heartbeat"
            /\ GuestAsSent(response'.request.student, response'.request.student_name)) =>
           /\ UNCHANGED <<presence, history, screenshots, store>>
           /\ response'.json.extension_enabled = FALSE]_vars

\* with the extension on and a student on record, a heartbeat with a
\* student's id and a guest's display name was told the extension is off
C40_Witness ==
    /\ response.op = "heartbeat"
    /\ response.request.student = <<"a", "l", "i">>
    /\ Contains(Lower(response.request.student_name), <<"t", "r", "i", "a", "l">>)
    /\ response.json.extension_enabled = FALSE
    /\ extension_enabled
    /\ presence # <<>>

====
